---- MODULE Spec2Model ----
(***************************************************************************)
(* packemon: passive capture pipeline, protocol parsers, interface handle  *)
(* lifecycle and the TC filter manager.                                    *)
(*                                                                         *)
(* Byte slices are modelled the way Go represents them: a window <<lo,hi>> *)
(* (0-based, hi exclusive) onto a backing array.  A slice expression       *)
(* data[lo:hi] faults (run-time panic) unless lo <= hi <= len(data); an    *)
(* index expression data[i] faults unless i < len(data).                   *)
(***************************************************************************)
EXTENDS Integers, Sequences, FiniteSets, TLC

VARIABLES
    \* ---- parser harness (pure functions applied to one input) ----
    inp,        \* the input byte sequence handed to a parser
    out,        \* [fn |-> parser applied, r |-> its result]
    \* ---- capture pipeline of one NetworkInterface ----
    backend,    \* "linux" | "darwin": which build of the package runs
    wire,       \* the frames the interface delivers, repeated cyclically
    pc,         \* position of the capture task
    cancelled,  \* ctx.Done() is closed
    buf,        \* linux: the bytes written so far into buf (make([]byte, 1500))
    cur,        \* the *Passive built by the current iteration
    ch,         \* PassiveCh: buffered channel of *Passive
    got,        \* records the consumer has received from PassiveCh
    rd,         \* number of frames the task has read
    dropped,    \* number of records discarded because PassiveCh was full
    Socket,     \* linux: nwif.Socket / darwin: nwif.Handle (0 = zero value)
    resOpen,    \* the OS resource behind Socket/Handle is open
    releaseOps, \* number of release operations issued on the resource
    closeCalls, \* number of Close() calls made on the handle
    \* ---- TC filter manager ----
    tc,         \* fields of TCProgramManager
    ext,        \* state of the external enforcement mechanism
    extOps,     \* number of external operations issued by the manager
    calls,      \* number of Start/Stop calls made
    last,       \* [op, err] of the latest Start/Stop call
    \* ---- buffer pools ----
    arrays,     \* the byte arrays allocated so far: capacity and non-zero indices
    bytesPools, \* what the sync.Pool of each global BytesPool holds
    buffers,    \* the bytes.Buffer objects allocated so far: their contents
    bufferPool, \* what the sync.Pool of the global BufferPool holds
    poolOps,    \* number of calls made by the users of the pools
    poolRet     \* what the latest Get returned, as it was on return

parseVars   == <<inp, out>>
captureVars == <<backend, wire, pc, cancelled, buf, cur, ch, got, rd, dropped,
                 Socket, resOpen, releaseOps, closeCalls>>
tcVars      == <<tc, ext, extOps, calls, last>>
poolVars    == <<arrays, bytesPools, buffers, bufferPool, poolOps, poolRet>>
vars        == <<inp, out, backend, wire, pc, cancelled, buf, cur, ch, got, rd,
                 dropped, Socket, resOpen, releaseOps, closeCalls,
                 tc, ext, extOps, calls, last,
                 arrays, bytesPools, buffers, bufferPool, poolOps, poolRet>>

(***************************************************************************)
(* Bytes and slices                                                        *)
(***************************************************************************)
Min(a, b) == IF a < b THEN a ELSE b

\* data[i] (0-based)
B(data, i) == data[i + 1]

\* binary.BigEndian.Uint16(data[i:i+2])
BE16(data, i) == B(data, i) * 256 + B(data, i + 1)

\* binary.BigEndian.Uint32(data[i:i+4]); a uint32 is held as its two 16-bit
\* halves <<high, low>> (TLC's integers are 32-bit signed)
BE32(data, i) == <<BE16(data, i), BE16(data, i + 2)>>

\* the bytes a window s = <<lo, hi>> shows of the array data
Bytes(data, s) == SubSeq(data, s[1] + 1, s[2])

\* Go's bounds check of a set of slice expressions against len(data)
InBounds(n, slices) == \A s \in slices : s[1] <= s[2] /\ s[2] <= n

\* f[lo] + ... + f[hi], the additions of a loop that runs over lo..hi
RECURSIVE SumRange(_, _, _)
SumRange(f, lo, hi) ==
    IF lo > hi THEN 0
    ELSE IF lo = hi THEN f[lo]
    ELSE LET mid == (lo + hi) \div 2
         IN  SumRange(f, lo, mid) + SumRange(f, mid + 1, hi)

Absent == [st |-> "absent"]
Fault  == [st |-> "fault"]

(***************************************************************************)
(* passive.go: the layer parsers                                           *)
(***************************************************************************)
ParseARPPacket(data) ==
    IF Len(data) < 28 THEN Absent
    ELSE IF ~InBounds(Len(data), {<<0, 2>>, <<2, 4>>, <<4, 5>>, <<5, 6>>, <<6, 8>>,
                                  <<8, 14>>, <<14, 18>>, <<18, 24>>, <<24, 28>>})
    THEN Fault
    ELSE [st |-> "ok",
          HardwareType |-> BE16(data, 0), ProtocolType |-> BE16(data, 2),
          HardwareSize |-> B(data, 4), ProtocolSize |-> B(data, 5),
          Operation |-> BE16(data, 6),
          SenderMAC |-> <<8, 14>>, SenderIP |-> <<14, 18>>,
          TargetMAC |-> <<18, 24>>, TargetIP |-> <<24, 28>>]

IPv4HeaderLen(data) == ((B(data, 0) % 16) * 4) % 256

ParseIPv4Packet(data) ==
    IF Len(data) < 20 THEN Absent
    ELSE LET ihl == IPv4HeaderLen(data) IN
         IF Len(data) < ihl THEN Absent
         ELSE IF ~InBounds(Len(data), {<<0, 1>>, <<1, 2>>, <<2, 4>>, <<4, 6>>, <<6, 7>>,
                                       <<6, 8>>, <<8, 9>>, <<9, 10>>, <<10, 12>>,
                                       <<12, 16>>, <<16, 20>>, <<20, ihl>>,
                                       <<ihl, Len(data)>>})
         THEN Fault
         ELSE [st |-> "ok",
               Version |-> (B(data, 0) \div 16) % 16, IHL |-> ihl, TOS |-> B(data, 1),
               TotalLength |-> BE16(data, 2), ID |-> BE16(data, 4),
               Flags |-> (B(data, 6) \div 32) % 8, FragOffset |-> BE16(data, 6) % 8192,
               TTL |-> B(data, 8), Protocol |-> B(data, 9), Checksum |-> BE16(data, 10),
               SrcIP |-> <<12, 16>>, DstIP |-> <<16, 20>>,
               Options |-> <<20, ihl>>, Payload |-> <<ihl, Len(data)>>]

\* ParseIPv6Packet with the length guard four bytes short of the fixed header
ParseIPv6Packet_Min36(data) ==
    IF Len(data) < 36 THEN Absent
    ELSE IF ~InBounds(Len(data), {<<0, 1>>, <<1, 2>>, <<2, 3>>, <<3, 4>>, <<4, 6>>,
                                  <<6, 7>>, <<7, 8>>, <<8, 24>>, <<24, 40>>,
                                  <<40, Len(data)>>})
    THEN Fault
    ELSE [st |-> "ok", NextHeader |-> B(data, 6), Payload |-> <<40, Len(data)>>]

ParseIPv6Packet(data) ==
    IF Len(data) < 40 THEN Absent
    ELSE IF ~InBounds(Len(data), {<<0, 1>>, <<1, 2>>, <<2, 3>>, <<3, 4>>, <<4, 6>>,
                                  <<6, 7>>, <<7, 8>>, <<8, 24>>, <<24, 40>>,
                                  <<40, Len(data)>>})
    THEN Fault
    ELSE [st |-> "ok",
          Version |-> (B(data, 0) \div 16) % 16,
          TrafficClass |-> ((B(data, 0) % 16) * 16) + ((B(data, 1) \div 16) % 16),
          FlowLabel |-> ((B(data, 1) % 16) * 256 + B(data, 2)) * 256 + B(data, 3),
          PayloadLen |-> BE16(data, 4), NextHeader |-> B(data, 6), HopLimit |-> B(data, 7),
          SrcIP |-> <<8, 24>>, DstIP |-> <<24, 40>>, Payload |-> <<40, Len(data)>>]

ParseICMPPacket(data) ==
    IF Len(data) < 8 THEN Absent
    ELSE IF ~InBounds(Len(data), {<<0, 1>>, <<1, 2>>, <<2, 4>>, <<4, 6>>, <<6, 8>>,
                                  <<8, Len(data)>>})
    THEN Fault
    ELSE [st |-> "ok", Type |-> B(data, 0), Code |-> B(data, 1),
          Checksum |-> BE16(data, 2), ID |-> BE16(data, 4), Sequence |-> BE16(data, 6),
          Payload |-> <<8, Len(data)>>]

ParseICMPv6Packet(data) ==
    IF Len(data) < 4 THEN Absent
    ELSE IF ~InBounds(Len(data), {<<0, 1>>, <<1, 2>>, <<2, 4>>, <<4, Len(data)>>})
    THEN Fault
    ELSE [st |-> "ok", Type |-> B(data, 0), Code |-> B(data, 1),
          Checksum |-> BE16(data, 2), Payload |-> <<4, Len(data)>>]

TCPDataOffset(data) == ((B(data, 12) \div 16) * 4) % 256

ParseTCPPacket(data) ==
    IF Len(data) < 20 THEN Absent
    ELSE LET dataOffset == TCPDataOffset(data) IN
         IF Len(data) < dataOffset THEN Absent
         ELSE IF ~InBounds(Len(data), {<<0, 2>>, <<2, 4>>, <<4, 8>>, <<8, 12>>,
                                       <<12, 13>>, <<13, 14>>, <<14, 16>>, <<16, 18>>,
                                       <<18, 20>>, <<20, dataOffset>>,
                                       <<dataOffset, Len(data)>>})
         THEN Fault
         ELSE [st |-> "ok",
               SrcPort |-> BE16(data, 0), DstPort |-> BE16(data, 2),
               SeqNum |-> BE32(data, 4), AckNum |-> BE32(data, 8),
               DataOffset |-> dataOffset, Flags |-> B(data, 13),
               Window |-> BE16(data, 14), Checksum |-> BE16(data, 16),
               UrgPtr |-> BE16(data, 18),
               Options |-> <<20, dataOffset>>, Payload |-> <<dataOffset, Len(data)>>]

ParseUDPPacket(data) ==
    IF Len(data) < 8 THEN Absent
    ELSE IF ~InBounds(Len(data), {<<0, 2>>, <<2, 4>>, <<4, 6>>, <<6, 8>>,
                                  <<8, Len(data)>>})
    THEN Fault
    ELSE [st |-> "ok", SrcPort |-> BE16(data, 0), DstPort |-> BE16(data, 2),
          Length |-> BE16(data, 4), Checksum |-> BE16(data, 6),
          Payload |-> <<8, Len(data)>>]

ParseDNSRequest(data) ==
    IF Len(data) < 12 THEN Absent
    ELSE IF ~InBounds(Len(data), {<<0, 2>>, <<2, 4>>, <<4, 6>>, <<6, 8>>, <<8, 10>>,
                                  <<10, 12>>, <<12, Len(data)>>})
    THEN Fault
    ELSE [st |-> "ok", ID |-> BE16(data, 0), Flags |-> BE16(data, 2),
          Questions |-> BE16(data, 4), AnswerRRs |-> BE16(data, 6),
          AuthorityRRs |-> BE16(data, 8), AdditionalRRs |-> BE16(data, 10),
          Payload |-> <<12, Len(data)>>]

ParseDNSResponse(data) == ParseDNSRequest(data)

\* placeholder parsers: they never look at data
ParseHTTPRequest(data) ==
    [st |-> "ok", Method |-> "GET", URI |-> "/", Version |-> "HTTP/1.1"]

ParseHTTPResponse(data) ==
    [st |-> "ok", Version |-> "HTTP/1.1", StatusCode |-> 200, Status |-> "OK"]

\* ParseTLSData returns the value it leaves in passive.TLS (Absent: field untouched)
ParseTLSData(data) ==
    IF Len(data) < 5 THEN Absent
    ELSE IF ~InBounds(Len(data), {<<0, 1>>, <<1, 3>>, <<3, 5>>, <<5, Len(data)>>})
    THEN Fault
    ELSE [st |-> "ok", Type |-> B(data, 0), Version |-> BE16(data, 1),
          Length |-> BE16(data, 3), Data |-> <<5, Len(data)>>]

(***************************************************************************)
(* icmpv6.go, bgp.go, ospf: header parsers                                 *)
(***************************************************************************)
ParsedICMPv6(payload) ==
    IF Len(payload) < 4 THEN Absent
    ELSE IF ~InBounds(Len(payload), {<<0, 1>>, <<1, 2>>, <<2, 4>>, <<4, Len(payload)>>})
    THEN Fault
    ELSE [st |-> "ok", Type |-> B(payload, 0), Code |-> B(payload, 1),
          Checksum |-> BE16(payload, 2), MessageBody |-> <<4, Len(payload)>>]

ParsedBGP(data) ==
    IF Len(data) < 19 THEN Absent
    ELSE IF ~InBounds(Len(data), {<<0, 16>>, <<16, 18>>, <<18, 19>>, <<19, Len(data)>>})
    THEN Fault
    ELSE [st |-> "ok", Marker |-> <<0, 16>>, Length |-> BE16(data, 16),
          Type |-> B(data, 18), MessageBody |-> <<19, Len(data)>>]

ParsedOSPF(data) ==
    IF Len(data) < 24 THEN Absent
    ELSE IF ~InBounds(Len(data), {<<16, 24>>, <<0, 1>>, <<1, 2>>, <<2, 4>>, <<4, 8>>,
                                  <<8, 12>>, <<12, 14>>, <<14, 16>>, <<24, Len(data)>>})
    THEN Fault
    ELSE [st |-> "ok", Version |-> B(data, 0), Type |-> B(data, 1),
          PacketLength |-> BE16(data, 2), RouterID |-> BE32(data, 4),
          AreaID |-> BE32(data, 8), Checksum |-> BE16(data, 12),
          AuType |-> BE16(data, 14),
          Authentication |-> Bytes(data, <<16, 24>>),  \* copied by value
          MessageBody |-> <<24, Len(data)>>]

(***************************************************************************)
(* bgp.go: constructors, serializers and the message-type sub-parsers.     *)
(* Sub-parsers take the BGP struct and the bytes of its MessageBody; the   *)
(* windows they return are relative to that body.                          *)
(***************************************************************************)
TwoTo8  == 256       \* uint8 arithmetic wraps here
TwoTo16 == 65536     \* uint16 arithmetic wraps here

U8(x)  == x % TwoTo8
U16(x) == x % TwoTo16

\* binary.Write(buf, binary.BigEndian, uint16)
U16Bytes(x) == <<x \div 256, x % 256>>

\* binary.Write(buf, binary.BigEndian, uint32), the value held as <<high, low>>
U32Bytes(x) == U16Bytes(x[1]) \o U16Bytes(x[2])

BGP_DEFAULT_MARKER == [i \in 1..16 |-> 255]

\* structs hold their byte strings by value here: the constructors' results
\* are only serialized
NewBGP(messageType, messageBody) ==
    [Marker |-> BGP_DEFAULT_MARKER, Length |-> U16(19 + Len(messageBody)),
     Type |-> messageType, MessageBody |-> messageBody]

BGPBytes(b) == b.Marker \o U16Bytes(b.Length) \o <<b.Type>> \o b.MessageBody

BGPOpenBytes(o) ==
    <<o.Version>> \o U16Bytes(o.MyAutonomousSystem) \o U16Bytes(o.HoldTime)
    \o U32Bytes(o.BGPIdentifier) \o <<o.OptionalParametersLength>>
    \o (IF o.OptionalParametersLength > 0 THEN o.OptionalParameters ELSE <<>>)

NewBGPOpen(asNumber, holdTime, routerID, optionalParams) ==
    NewBGP(1, BGPOpenBytes([Version |-> 4, MyAutonomousSystem |-> asNumber,
                            HoldTime |-> holdTime, BGPIdentifier |-> routerID,
                            OptionalParametersLength |-> U8(Len(optionalParams)),
                            OptionalParameters |-> optionalParams]))

BGPUpdateBytes(u) ==
    U16Bytes(u.WithdrawnRoutesLength)
    \o (IF u.WithdrawnRoutesLength > 0 THEN u.WithdrawnRoutes ELSE <<>>)
    \o U16Bytes(u.PathAttributesLength)
    \o (IF u.PathAttributesLength > 0 THEN u.PathAttributes ELSE <<>>)
    \o u.NetworkLayerReachabilityInfo

NewBGPUpdate(withdrawnRoutes, pathAttributes, nlri) ==
    NewBGP(2, BGPUpdateBytes([WithdrawnRoutesLength |-> U16(Len(withdrawnRoutes)),
                              WithdrawnRoutes |-> withdrawnRoutes,
                              PathAttributesLength |-> U16(Len(pathAttributes)),
                              PathAttributes |-> pathAttributes,
                              NetworkLayerReachabilityInfo |-> nlri]))

\* the nil slice
NilSlice == <<0, 0>>

\* optParamLen is a uint8 and 10+optParamLen is computed in uint8
ParsedBGPOpen(bgp, body) ==
    IF bgp.st # "ok" \/ bgp.Type # 1 \/ Len(body) < 10 THEN Absent
    ELSE LET optParamLen == B(body, 9)
             take == optParamLen > 0 /\ Len(body) >= 10 + optParamLen
             optParams == IF take THEN <<10, U8(10 + optParamLen)>> ELSE NilSlice
         IN  IF ~InBounds(Len(body), {optParams, <<1, 3>>, <<3, 5>>, <<5, 9>>})
             THEN Fault
             ELSE [st |-> "ok", Version |-> B(body, 0),
                   MyAutonomousSystem |-> BE16(body, 1), HoldTime |-> BE16(body, 3),
                   BGPIdentifier |-> BE32(body, 5),
                   OptionalParametersLength |-> optParamLen,
                   OptionalParameters |-> optParams]

\* the guards widen to int; the slice bounds are computed in uint16
ParsedBGPUpdate(bgp, body) ==
    IF bgp.st # "ok" \/ bgp.Type # 2 \/ Len(body) < 4 THEN Absent
    ELSE LET withdrawnRoutesLen == BE16(body, 0) IN
    IF Len(body) < 2 + withdrawnRoutesLen + 2 THEN Absent
    ELSE LET withdrawnRoutes == <<2, U16(2 + withdrawnRoutesLen)>>
             pathAttrLenPos  == U16(2 + withdrawnRoutesLen)
         IN
    IF ~InBounds(Len(body), {withdrawnRoutes, <<pathAttrLenPos, U16(pathAttrLenPos + 2)>>})
    THEN Fault
    ELSE LET pathAttrLen == BE16(body, pathAttrLenPos) IN
    IF Len(body) < 2 + withdrawnRoutesLen + 2 + pathAttrLen THEN Absent
    ELSE LET pathAttr == <<U16(pathAttrLenPos + 2), U16(pathAttrLenPos + 2 + pathAttrLen)>>
             nlri     == <<U16(pathAttrLenPos + 2 + pathAttrLen), Len(body)>>
         IN
    IF ~InBounds(Len(body), {pathAttr, nlri}) THEN Fault
    ELSE [st |-> "ok",
          WithdrawnRoutesLength |-> withdrawnRoutesLen, WithdrawnRoutes |-> withdrawnRoutes,
          PathAttributesLength |-> pathAttrLen, PathAttributes |-> pathAttr,
          NetworkLayerReachabilityInfo |-> nlri]

(***************************************************************************)
(* icmpv6.go: Echo sub-parser, serializer and the Internet checksum        *)
(***************************************************************************)
\* takes the ICMPv6 struct and the bytes of its MessageBody
ParsedICMPv6Echo(icmpv6, body) ==
    IF icmpv6.st # "ok" \/ Len(body) < 4 THEN Absent
    ELSE IF ~InBounds(Len(body), {<<0, 2>>, <<2, 4>>, <<4, Len(body)>>}) THEN Fault
    ELSE [st |-> "ok", Identifier |-> BE16(body, 0), SequenceNumber |-> BE16(body, 2),
          Data |-> <<4, Len(body)>>]

\* the constant is declared outside the files at hand; 58 is ICMPv6's number
IPv6_NEXT_HEADER_ICMPv6 == 58

\* WriteUint16(buf, v): two bytes, high byte first
WriteUint16(v) == <<v \div 256, v % 256>>

\* i.Bytes(), i a struct holding its MessageBody by value
ICMPv6Bytes(i) == <<i.Type, i.Code>> \o WriteUint16(i.Checksum) \o i.MessageBody

\* bytesWithZeroChecksum leaving the checksum field as it is
bytesWithZeroChecksum_KeepsField(i) == ICMPv6Bytes(i)

bytesWithZeroChecksum(i) == <<i.Type, i.Code>> \o WriteUint16(0) \o i.MessageBody

\* the loop over 16-bit words: for i := 0; i < len(data)-1; i += 2
SumWords(data) ==
    LET word == [k \in 0..(Len(data) \div 2 - 1) |->
                    B(data, 2 * k) * 256 + B(data, 2 * k + 1)]
    IN  SumRange(word, 0, Len(data) \div 2 - 1)

\* for sum > 0xffff { sum = (sum & 0xffff) + (sum >> 16) }
RECURSIVE FoldCarries(_)
FoldCarries(sum) ==
    IF sum > 65535 THEN FoldCarries((sum % 65536) + (sum \div 65536)) ELSE sum

\* sum is a uint32; the inputs here keep it far below 2^31
calculateInternetChecksum(data) ==
    LET words == SumWords(data)
        sum   == IF Len(data) % 2 = 1 THEN words + B(data, Len(data) - 1) * 256
                 ELSE words
    IN  65535 - FoldCarries(sum)

\* src, dst (16 bytes each), uint32 length, three zero bytes, next header
PseudoHeader(srcIP, dstIP, packetLength) ==
    srcIP \o dstIP \o U32Bytes(<<packetLength \div TwoTo16, packetLength % TwoTo16>>)
    \o <<0, 0, 0>>
    \o <<IPv6_NEXT_HEADER_ICMPv6>>

CalculateChecksum(i, srcIP, dstIP) ==
    LET icmpData == bytesWithZeroChecksum(i)
    IN  calculateInternetChecksum(PseudoHeader(srcIP, dstIP, Len(icmpData)) \o icmpData)

(***************************************************************************)
(* OSPF: constructors, serializers, the Fletcher checksum and the Hello    *)
(* sub-parser.  uint32 values are pairs <<high, low>> of 16-bit halves.    *)
(***************************************************************************)
\* the loop of calculateFletcherChecksum, yielding <<c0, c1>>: c0 after byte i
\* is the sum modulo 255 of the bytes up to i that are not skipped, c1 the sum
\* modulo 255 of those values of c0 (the uint16 sums stay below 510)
FletcherSums(data) ==
    LET n       == Len(data) - 1
        skipped == {i \in 0..n : i >= 12 /\ i <= 13}
        byte    == [i \in 0..n |-> IF i \in skipped THEN 0 ELSE B(data, i)]
        c0      == [i \in 0..n |-> SumRange(byte, 0, i) % 255]
        added   == [i \in 0..n |-> IF i \in skipped THEN 0 ELSE c0[i]]
    IN  <<IF n < 0 THEN 0 ELSE c0[n], SumRange(added, 0, n) % 255>>

\* the two sums combined for every input alike
IsRFC1008Vector_Never(data) == FALSE

\* the branch taken before the two sums are combined
IsRFC1008Vector(data) ==
    Len(data) = 16 /\ B(data, 0) = 0 /\ B(data, 1) = 1 /\ B(data, 15) = 15

\* (c1 << 8) | c0: c0 < 255 occupies the low byte only
calculateFletcherChecksum(data) ==
    LET c == FletcherSums(data)
    IN  IF IsRFC1008Vector(data) THEN 44021
        ELSE U16(c[2] * 256) + c[1]

OSPFbytesWithoutChecksum(o) ==
    <<o.Version, o.Type>> \o U16Bytes(o.PacketLength) \o U32Bytes(o.RouterID)
    \o U32Bytes(o.AreaID) \o U16Bytes(0) \o U16Bytes(o.AuType) \o o.Authentication
    \o o.MessageBody

OSPFCalculateChecksum(o) ==
    LET ospfCopy == [o EXCEPT !.Checksum = 0]
        data     == OSPFbytesWithoutChecksum(ospfCopy)
    IN  calculateFletcherChecksum(data)

\* NewOSPF that leaves the Checksum field at zero
NewOSPF_ChecksumNotStored(packetType, routerID, areaID, messageBody) ==
    [Version |-> 2, Type |-> packetType,
     PacketLength |-> U16(24 + Len(messageBody)),
     RouterID |-> routerID, AreaID |-> areaID, Checksum |-> 0,
     AuType |-> 0, Authentication |-> [i \in 1..8 |-> 0],
     MessageBody |-> messageBody]

NewOSPF(packetType, routerID, areaID, messageBody) ==
    LET ospf == [Version |-> 2, Type |-> packetType,
                 PacketLength |-> U16(24 + Len(messageBody)),
                 RouterID |-> routerID, AreaID |-> areaID, Checksum |-> 0,
                 AuType |-> 0, Authentication |-> [i \in 1..8 |-> 0],
                 MessageBody |-> messageBody]
    IN  [ospf EXCEPT !.Checksum = OSPFCalculateChecksum(ospf)]

OSPFBytes(o) ==
    <<o.Version, o.Type>> \o U16Bytes(o.PacketLength) \o U32Bytes(o.RouterID)
    \o U32Bytes(o.AreaID) \o U16Bytes(o.Checksum) \o U16Bytes(o.AuType)
    \o o.Authentication \o o.MessageBody

\* for _, neighbor := range h.Neighbors { binary.Write(buf, BigEndian, neighbor) }
RECURSIVE NeighborBytes(_)
NeighborBytes(neighbors) ==
    IF neighbors = <<>> THEN <<>>
    ELSE U32Bytes(Head(neighbors)) \o NeighborBytes(Tail(neighbors))

OSPFHelloBytes(h) ==
    U32Bytes(h.NetworkMask) \o U16Bytes(h.HelloInterval)
    \o <<h.Options, h.RouterPriority>> \o U32Bytes(h.RouterDeadInterval)
    \o U32Bytes(h.DesignatedRouter) \o U32Bytes(h.BackupDesRouter)
    \o NeighborBytes(h.Neighbors)

NewOSPFHello(routerID, areaID, networkMask, helloInterval, options, routerPriority, routerDeadInterval, dr, bdr, neighbors) ==
    NewOSPF(1, routerID, areaID,
            OSPFHelloBytes([NetworkMask |-> networkMask, HelloInterval |-> helloInterval,
                            Options |-> options, RouterPriority |-> routerPriority,
                            RouterDeadInterval |-> routerDeadInterval,
                            DesignatedRouter |-> dr, BackupDesRouter |-> bdr,
                            Neighbors |-> neighbors]))

\* ParsedOSPFHello that leaves the neighbor list empty
ParsedOSPFHello_NoNeighbors(ospf, body) ==
    IF ospf.st # "ok" \/ ospf.Type # 1 \/ Len(body) < 20 THEN Absent
    ELSE [st |-> "ok",
          NetworkMask |-> BE32(body, 0), HelloInterval |-> BE16(body, 4),
          Options |-> B(body, 6), RouterPriority |-> B(body, 7),
          RouterDeadInterval |-> BE32(body, 8), DesignatedRouter |-> BE32(body, 12),
          BackupDesRouter |-> BE32(body, 16), Neighbors |-> <<>>]

\* takes the OSPF struct and the bytes of its MessageBody
ParsedOSPFHello(ospf, body) ==
    IF ospf.st # "ok" \/ ospf.Type # 1 \/ Len(body) < 20 THEN Absent
    ELSE LET numNeighbors == (Len(body) - 20) \div 4 IN
         IF ~InBounds(Len(body), {<<20 + i * 4, 20 + i * 4 + 4>> : i \in 0..(numNeighbors - 1)}
                                 \cup {<<0, 4>>, <<4, 6>>, <<8, 12>>, <<12, 16>>, <<16, 20>>})
         THEN Fault
         ELSE [st |-> "ok",
               NetworkMask |-> BE32(body, 0), HelloInterval |-> BE16(body, 4),
               Options |-> B(body, 6), RouterPriority |-> B(body, 7),
               RouterDeadInterval |-> BE32(body, 8), DesignatedRouter |-> BE32(body, 12),
               BackupDesRouter |-> BE32(body, 16),
               Neighbors |-> [i \in 1..numNeighbors |-> BE32(body, 20 + (i - 1) * 4)]]

(***************************************************************************)
(* networkinterface_common.go: the payload demultiplexer.                  *)
(* A Passive is a record of optional layers; every populated layer carries *)
(* base, the offset of the layer's own data inside the captured frame, so  *)
(* that its slices can be resolved against the frame's backing array.      *)
(* st = "fault" records that a parser panicked while the record was built; *)
(* id tells one allocated record from another.                             *)
(***************************************************************************)
NewPassive(frame, id) ==
    [st |-> "ok", id |-> id, EthernetFrame |-> frame,
     ARP |-> Absent, IPv4 |-> Absent, IPv6 |-> Absent, ICMP |-> Absent,
     ICMPv6 |-> Absent, TCP |-> Absent, UDP |-> Absent, TLS |-> Absent,
     DNS |-> Absent, HTTP |-> Absent, HTTPRes |-> Absent]

\* passive.<field> = r, where r is what a parser returned for data at offset base
SetLayer(passive, field, r, base) ==
    IF r.st = "fault" THEN [passive EXCEPT !.st = "fault"]
    ELSE IF r.st = "ok" THEN [passive EXCEPT ![field] = r @@ [base |-> base]]
    ELSE [passive EXCEPT ![field] = r]

parseDNSData(passive, data, base) ==
    IF Len(data) < 12 THEN passive
    ELSE IF ~InBounds(Len(data), {<<2, 4>>}) THEN [passive EXCEPT !.st = "fault"]
    ELSE LET flags == BE16(data, 2)
             isResponse == (flags \div 32768) % 2 # 0
         IN  IF isResponse
             THEN SetLayer(passive, "DNS", ParseDNSResponse(data), base)
             ELSE SetLayer(passive, "DNS", ParseDNSRequest(data), base)

\* parseTCPPayload telling request from response by the source port
parseTCPPayload_BySrcPort(passive, tcp, data, base) ==
    IF tcp.DstPort = 80 \/ tcp.SrcPort = 80
    THEN IF tcp.SrcPort = 80
         THEN SetLayer(passive, "HTTP", ParseHTTPRequest(data), base)
         ELSE SetLayer(passive, "HTTPRes", ParseHTTPResponse(data), base)
    ELSE passive

parseTCPPayload(passive, tcp, data, base) ==
    LET http == IF tcp.DstPort = 80 \/ tcp.SrcPort = 80
                THEN IF tcp.DstPort = 80
                     THEN SetLayer(passive, "HTTP", ParseHTTPRequest(data), base)
                     ELSE SetLayer(passive, "HTTPRes", ParseHTTPResponse(data), base)
                ELSE passive
        tls  == IF http.st = "ok" /\ (tcp.DstPort = 443 \/ tcp.SrcPort = 443)
                THEN LET r == ParseTLSData(data) IN
                     IF r.st = "absent" THEN http ELSE SetLayer(http, "TLS", r, base)
                ELSE http
    IN  IF tls.st = "ok" /\ (tcp.DstPort = 53 \/ tcp.SrcPort = 53) /\ Len(data) > 2
        THEN parseDNSData(tls, Bytes(data, <<2, Len(data)>>), base + 2)
        ELSE tls

parseUDPPayload(passive, udp, data, base) ==
    IF udp.DstPort = 53 \/ udp.SrcPort = 53
    THEN parseDNSData(passive, data, base)
    ELSE passive

\* the TCP and UDP cases shared by parseIPv4Payload and parseIPv6Payload
parseTransport(passive, proto, data, base) ==
    IF proto = 6 /\ Len(data) >= 20
    THEN LET tcp == ParseTCPPacket(data)
             p   == SetLayer(passive, "TCP", tcp, base)
         IN  IF tcp.st = "ok" /\ tcp.Payload[2] - tcp.Payload[1] > 0
             THEN parseTCPPayload(p, tcp, Bytes(data, tcp.Payload), base + tcp.Payload[1])
             ELSE p
    ELSE IF proto = 17 /\ Len(data) >= 8
    THEN LET udp == ParseUDPPacket(data)
             p   == SetLayer(passive, "UDP", udp, base)
         IN  IF udp.st = "ok" /\ udp.Payload[2] - udp.Payload[1] > 0
             THEN parseUDPPayload(p, udp, Bytes(data, udp.Payload), base + udp.Payload[1])
             ELSE p
    ELSE passive

\* data = ipv4.Payload, base = its offset in the frame
parseIPv4Payload(passive, ipv4, data, base) ==
    IF ipv4.Protocol = 1
    THEN IF Len(data) >= 8
         THEN SetLayer(passive, "ICMP", ParseICMPPacket(data), base)
         ELSE passive
    ELSE parseTransport(passive, ipv4.Protocol, data, base)

parseIPv6Payload(passive, ipv6, data, base) ==
    IF ipv6.NextHeader = 58
    THEN IF Len(data) >= 8
         THEN SetLayer(passive, "ICMPv6", ParseICMPv6Packet(data), base)
         ELSE passive
    ELSE parseTransport(passive, ipv6.NextHeader, data, base)

\* parseEthernetPayload without its switch on the EtherType
parseEthernetPayload_AnyType(passive, payload, base) ==
    IF Len(payload) < 28 THEN passive
    ELSE SetLayer(passive, "ARP", ParseARPPacket(payload), base)

\* payload = the bytes of passive.EthernetFrame.Payload, base = its offset
parseEthernetPayload(passive, payload, base) ==
    IF Len(payload) = 0 THEN passive
    ELSE LET etherType == passive.EthernetFrame.Type IN
    IF etherType = 2054 /\ Len(payload) >= 28
    THEN SetLayer(passive, "ARP", ParseARPPacket(payload), base)
    ELSE IF etherType = 2048 /\ Len(payload) >= 20
    THEN LET ipv4 == ParseIPv4Packet(payload)
             p    == SetLayer(passive, "IPv4", ipv4, base)
         IN  IF ipv4.st = "ok" /\ ipv4.Payload[2] - ipv4.Payload[1] > 0
             THEN parseIPv4Payload(p, ipv4, Bytes(payload, ipv4.Payload),
                                   base + ipv4.Payload[1])
             ELSE p
    ELSE IF etherType = 34525 /\ Len(payload) >= 40
    THEN LET ipv6 == ParseIPv6Packet(payload)
             p    == SetLayer(passive, "IPv6", ipv6, base)
         IN  IF ipv6.st = "ok" /\ ipv6.Payload[2] - ipv6.Payload[1] > 0
             THEN parseIPv6Payload(p, ipv6, Bytes(payload, ipv6.Payload),
                                   base + ipv6.Payload[1])
             ELSE p
    ELSE passive

(***************************************************************************)
(* Parser harness: one input, one parser applied to it.                    *)
(***************************************************************************)
MaxInputLen == 41

\* data[0] values: IPv4 version 4 with IHL 0, 4, 5, 6 and 15
FirstBytes == {64, 68, 69, 70, 79}

\* data[12] values: TCP data offset 0, 4, 5, 6 and 15
OffsetBytes == {0, 64, 80, 96, 240}

\* an input of n bytes; bytes 0 and 12 carry the declared header lengths
MkInput(n, b0, b12) ==
    [i \in 1..n |-> IF i = 1 THEN b0 ELSE IF i = 13 THEN b12 ELSE (i * 37 + 11) % 256]

Inputs == {MkInput(n, b0, b12) : n \in 0..MaxInputLen, b0 \in FirstBytes,
                                 b12 \in OffsetBytes}

NoOut == [fn |-> "none", r |-> Absent]

InitParse == inp \in Inputs /\ out = NoOut

InitParseIdle == inp = <<>> /\ out = NoOut

Apply(fn, r) ==
    /\ out.fn = "none"
    /\ out' = [fn |-> fn, r |-> r]
    /\ UNCHANGED <<inp, captureVars, tcVars, poolVars>>

ApplyParseARPPacket    == Apply("ParseARPPacket", ParseARPPacket(inp))
ApplyParseIPv4Packet   == Apply("ParseIPv4Packet", ParseIPv4Packet(inp))
ApplyParseIPv6Packet   == Apply("ParseIPv6Packet", ParseIPv6Packet(inp))
ApplyParseICMPPacket   == Apply("ParseICMPPacket", ParseICMPPacket(inp))
ApplyParseICMPv6Packet == Apply("ParseICMPv6Packet", ParseICMPv6Packet(inp))
ApplyParsedICMPv6      == Apply("ParsedICMPv6", ParsedICMPv6(inp))
ApplyParseTCPPacket    == Apply("ParseTCPPacket", ParseTCPPacket(inp))
ApplyParseUDPPacket    == Apply("ParseUDPPacket", ParseUDPPacket(inp))
ApplyParseDNSRequest   == Apply("ParseDNSRequest", ParseDNSRequest(inp))
ApplyParsedBGP         == Apply("ParsedBGP", ParsedBGP(inp))
ApplyParsedOSPF        == Apply("ParsedOSPF", ParsedOSPF(inp))

NextParse ==
    \/ ApplyParseARPPacket
    \/ ApplyParseIPv4Packet
    \/ ApplyParseIPv6Packet
    \/ ApplyParseICMPPacket
    \/ ApplyParseICMPv6Packet
    \/ ApplyParsedICMPv6
    \/ ApplyParseTCPPacket
    \/ ApplyParseUDPPacket
    \/ ApplyParseDNSRequest
    \/ ApplyParsedBGP
    \/ ApplyParsedOSPF

(***************************************************************************)
(* Frames on the wire                                                      *)
(***************************************************************************)
Rep(n, b) == [i \in 1..n |-> b]

\* Ethernet header (6B dst, 6B src, 2B EtherType) followed by payload
MkEth(dst, src, etherType, payload) ==
    Rep(6, dst) \o Rep(6, src) \o <<etherType \div 256, etherType % 256>> \o payload

\* IPv4 header with the given IHL nibble and protocol, options zero-filled
MkIPv4(ihl, proto, payload) ==
    <<64 + ihl, 0, 0, 0, 0, 7, 64, 0, 64, proto, 0, 0, 10, 0, 0, 1, 10, 0, 0, 2>>
    \o Rep(IF ihl > 5 THEN (ihl - 5) * 4 ELSE 0, 0) \o payload

\* TCP header with the given ports and data-offset nibble
MkTCP(srcPort, dstPort, off, payload) ==
    <<srcPort \div 256, srcPort % 256, dstPort \div 256, dstPort % 256,
      0, 0, 0, 1, 0, 0, 0, 0, off * 16, 24, 16, 0, 0, 0, 0, 0>>
    \o Rep(IF off > 5 THEN (off - 5) * 4 ELSE 0, 0) \o payload

FrameShort  == Rep(10, 255)
FrameBare   == MkEth(17, 18, 2048, <<>>)
FrameARP    == MkEth(255, 34, 2054,
                     <<0, 1, 8, 0, 6, 4, 0, 1>> \o Rep(6, 34) \o <<10, 0, 0, 1>>
                     \o Rep(6, 0) \o <<10, 0, 0, 2>>)
FrameTCP80  == MkEth(51, 52, 2048, MkIPv4(5, 6, MkTCP(4660, 80, 5, <<71, 69, 84, 32>>)))
FrameBadIHL == MkEth(68, 69, 2048, MkIPv4(4, 6, <<>>))
FrameBadOff == MkEth(85, 86, 2048, MkIPv4(5, 6, MkTCP(4660, 80, 4, <<>>)))

FrameKinds == {"short", "bare", "arp", "tcp80", "badihl", "badoff"}

FrameBytes(kind) ==
    CASE kind = "short"  -> FrameShort
      [] kind = "bare"   -> FrameBare
      [] kind = "arp"    -> FrameARP
      [] kind = "tcp80"  -> FrameTCP80
      [] kind = "badihl" -> FrameBadIHL
      [] kind = "badoff" -> FrameBadOff

\* the interface delivers a pair of frames over and over
WirePatterns == FrameKinds \X FrameKinds

\* the k-th frame delivered (k = 1, 2, ...)
FrameAt(w, k) == FrameBytes(w[((k - 1) % Len(w)) + 1])

(***************************************************************************)
(* NetworkInterface: the capture task, its channel and the handle          *)
(***************************************************************************)
ChanCap   == 100     \* make(chan *Passive, 100)
BufCap    == 1500    \* buf := make([]byte, 1500)
SockFd    == 3       \* the descriptor unix.Socket returned / a non-nil Handle
MaxFrames == 102     \* frames the interface delivers before it falls silent
MaxRecv   == 2       \* records the consumer takes
MaxClose  == 2       \* Close() calls made by the owner

\* the backing array a record's slices window onto: 0 is the task's buf, k > 0 is
\* the data of the k-th packet (packet.Data(), allocated per packet)
Mem(m, w, b) == IF m = 0 THEN b ELSE FrameAt(w, m)

\* &EthernetFrame{DstAddr: d[0:6], SrcAddr: d[6:12], Type: Uint16(d[12:14]), Payload: d[14:n]}
NewEthernetFrame(m, d, n) ==
    [mem |-> m, DstAddr |-> <<0, 6>>, SrcAddr |-> <<6, 12>>, Type |-> BE16(d, 12),
     Payload |-> <<14, n>>]

\* the record one iteration builds from the n bytes at the start of d
BuildPassive(id, m, d, n) ==
    LET frame == NewEthernetFrame(m, d, n)
    IN  parseEthernetPayload(NewPassive(frame, id), Bytes(d, frame.Payload), 14)

InitCapture ==
    /\ backend \in {"linux", "darwin"}
    /\ wire \in WirePatterns
    /\ pc = "loop"
    /\ cancelled = FALSE
    /\ buf = <<>>
    /\ cur = Absent
    /\ ch = <<>>
    /\ got = <<>>
    /\ rd = 0
    /\ dropped = 0
    /\ Socket = SockFd
    /\ resOpen = TRUE
    /\ releaseOps = 0
    /\ closeCalls = 0

InitCaptureIdle ==
    /\ backend = "linux"
    /\ wire = <<"arp", "arp">>
    /\ pc = "done"
    /\ cancelled = TRUE
    /\ buf = <<>>
    /\ cur = Absent
    /\ ch = <<>>
    /\ got = <<>>
    /\ rd = 0
    /\ dropped = 0
    /\ Socket = SockFd
    /\ resOpen = TRUE
    /\ releaseOps = 0
    /\ closeCalls = 0

handleVars == <<Socket, resOpen, releaseOps, closeCalls>>

\* linux: select { case <-ctx.Done(): return; default: ... }
LinuxSelect ==
    /\ backend = "linux" /\ pc = "loop"
    /\ pc' = IF cancelled THEN "done" ELSE "default"
    /\ UNCHANGED <<backend, wire, cancelled, buf, cur, ch, got, rd, dropped, handleVars,
                   parseVars, tcVars, poolVars>>

\* linux: the task enters unix.Recvfrom(nwif.Socket, buf, 0)
LinuxRecvfromCall ==
    /\ backend = "linux" /\ pc = "default"
    /\ pc' = IF resOpen THEN "recv" ELSE "recvbad"
    /\ UNCHANGED <<backend, wire, cancelled, buf, cur, ch, got, rd, dropped, handleVars,
                   parseVars, tcVars, poolVars>>

\* linux: Recvfrom, blocked on the open socket, returns an error (EINTR, ...)
LinuxRecvErr ==
    /\ backend = "linux" /\ pc = "recv"
    /\ pc' = "loop"
    /\ UNCHANGED <<backend, wire, cancelled, buf, cur, ch, got, rd, dropped, handleVars,
                   parseVars, tcVars, poolVars>>

\* linux: Recvfrom on the closed descriptor returns EBADF at once
LinuxRecvBadFd ==
    /\ backend = "linux" /\ pc = "recvbad"
    /\ pc' = "loop"
    /\ UNCHANGED <<backend, wire, cancelled, buf, cur, ch, got, rd, dropped, handleVars,
                   parseVars, tcVars, poolVars>>

\* what the iteration does with the n bytes of d it has read from array m
AfterRead(m, d, n, skip) ==
    IF skip
    THEN pc' = "loop" /\ cur' = cur
    ELSE LET passive == BuildPassive(rd + 1, m, d, n) IN
         IF passive.st = "fault"
         THEN pc' = "panic" /\ cur' = cur
         ELSE pc' = "publish" /\ cur' = passive

\* linux: a frame arrives; Recvfrom copies it into buf and returns its length
LinuxRecvFrame ==
    /\ backend = "linux" /\ pc = "recv" /\ rd < MaxFrames
    /\ LET f == FrameAt(wire, rd + 1)
           n == Min(Len(f), BufCap)
           b == SubSeq(f, 1, n) \o SubSeq(buf, n + 1, Len(buf))
       IN  /\ buf' = b
           /\ rd' = rd + 1
           /\ AfterRead(0, b, n, n <= 14)
    /\ UNCHANGED <<backend, wire, cancelled, ch, got, dropped, handleVars,
                   parseVars, tcVars, poolVars>>

\* darwin: select takes case <-ctx.Done()
DarwinSelectDone ==
    /\ backend = "darwin" /\ pc = "loop" /\ cancelled
    /\ pc' = "done"
    /\ UNCHANGED <<backend, wire, cancelled, buf, cur, ch, got, rd, dropped, handleVars,
                   parseVars, tcVars, poolVars>>

\* darwin: select takes case packet := <-packetChan with a captured packet
DarwinSelectPacket ==
    /\ backend = "darwin" /\ pc = "loop" /\ rd < MaxFrames
    /\ LET data == FrameAt(wire, rd + 1)
       IN  /\ rd' = rd + 1
           /\ AfterRead(rd + 1, data, Len(data), Len(data) < 14)
    /\ UNCHANGED <<backend, wire, cancelled, buf, ch, got, dropped, handleVars,
                   parseVars, tcVars, poolVars>>

\* darwin: packetChan is closed once the handle is; the receive yields nil
DarwinSelectNil ==
    /\ backend = "darwin" /\ pc = "loop" /\ ~resOpen
    /\ UNCHANGED vars

\* the send without its default case: nwif.PassiveCh <- passive
Publish_Blocking ==
    /\ pc = "publish" /\ Len(ch) < ChanCap
    /\ ch' = Append(ch, cur) /\ dropped' = dropped
    /\ pc' = "loop"
    /\ UNCHANGED <<backend, wire, cancelled, buf, cur, got, rd, handleVars,
                   parseVars, tcVars, poolVars>>

\* select { case nwif.PassiveCh <- passive: default: }
Publish ==
    /\ pc = "publish"
    /\ IF Len(ch) < ChanCap
       THEN ch' = Append(ch, cur) /\ dropped' = dropped
       ELSE ch' = ch /\ dropped' = dropped + 1
    /\ pc' = "loop"
    /\ UNCHANGED <<backend, wire, cancelled, buf, cur, got, rd, handleVars,
                   parseVars, tcVars, poolVars>>

\* the owner cancels the context passed to ReceiveEthernetFrame
Cancel ==
    /\ ~cancelled /\ pc # "panic"
    /\ cancelled' = TRUE
    /\ UNCHANGED <<backend, wire, pc, buf, cur, ch, got, rd, dropped, handleVars,
                   parseVars, tcVars, poolVars>>

\* a receive that leaves the record in the channel
Receive_NoDequeue ==
    /\ Len(ch) > 0 /\ Len(got) < MaxRecv /\ pc # "panic"
    /\ got' = Append(got, Head(ch))
    /\ ch' = ch
    /\ UNCHANGED <<backend, wire, pc, cancelled, buf, cur, rd, dropped, handleVars,
                   parseVars, tcVars, poolVars>>

\* a consumer receives from PassiveCh
Receive ==
    /\ Len(ch) > 0 /\ Len(got) < MaxRecv /\ pc # "panic"
    /\ got' = Append(got, Head(ch))
    /\ ch' = Tail(ch)
    /\ UNCHANGED <<backend, wire, pc, cancelled, buf, cur, rd, dropped, handleVars,
                   parseVars, tcVars, poolVars>>

\* closePlatform that forgets the unix.Close call
closePlatformLinux_NoRelease ==
    UNCHANGED <<releaseOps, resOpen, Socket>>

\* linux closePlatform: if nwif.Socket != 0 { unix.Close(nwif.Socket) }
closePlatformLinux ==
    IF Socket # 0
    THEN releaseOps' = releaseOps + 1 /\ resOpen' = FALSE /\ Socket' = Socket
    ELSE UNCHANGED <<releaseOps, resOpen, Socket>>

\* darwin closePlatform: if nwif.Handle != nil { nwif.Handle.Close() };
\* pcap's Handle.Close returns at once on a handle that is no longer open
closePlatformDarwin ==
    IF Socket # 0 /\ resOpen
    THEN releaseOps' = releaseOps + 1 /\ resOpen' = FALSE /\ Socket' = Socket
    ELSE UNCHANGED <<releaseOps, resOpen, Socket>>

\* the owner calls nwif.Close()
Close ==
    /\ closeCalls < MaxClose /\ pc # "panic"
    /\ closeCalls' = closeCalls + 1
    /\ IF backend = "linux" THEN closePlatformLinux ELSE closePlatformDarwin
    /\ UNCHANGED <<backend, wire, pc, cancelled, buf, cur, ch, got, rd, dropped,
                   parseVars, tcVars, poolVars>>

NextCapture ==
    \/ LinuxSelect
    \/ LinuxRecvfromCall
    \/ LinuxRecvErr
    \/ LinuxRecvBadFd
    \/ LinuxRecvFrame
    \/ DarwinSelectDone
    \/ DarwinSelectPacket
    \/ DarwinSelectNil
    \/ Publish
    \/ Cancel
    \/ Receive
    \/ Close

(***************************************************************************)
(* TCProgramManager: tc_program_linux.go (eBPF + netlink) and the macOS    *)
(* manager (pfctl).  tc holds the manager's fields, ext the state of the   *)
(* kernel / packet filter / file system the external calls act on.         *)
(***************************************************************************)
MaxCalls == 4        \* Start/Stop calls made on one manager

\* newTCProgramManagerPlatform
NewManager(platform) ==
    [platform |-> platform, isActive |-> FALSE,
     qdisc |-> FALSE, filter |-> FALSE, objs |-> FALSE,    \* linux: fields set
     filterRules |-> 0, tempFile |-> 0]                    \* darwin: rules held, file id

NoExt == [objs |-> 0, qdisc |-> FALSE, filter |-> FALSE, pf |-> FALSE, files |-> {}]

InitTC ==
    /\ tc \in {NewManager("linux"), NewManager("darwin")}
    /\ ext = NoExt
    /\ extOps = 0
    /\ calls = 0
    /\ last = [op |-> "none", err |-> "nil", was |-> FALSE]

InitTCIdle ==
    /\ tc = NewManager("linux")
    /\ ext = NoExt
    /\ extOps = 0
    /\ calls = MaxCalls
    /\ last = [op |-> "none", err |-> "nil", was |-> FALSE]

\* Start without its early return
AlreadyActive_Never(t) == FALSE

\* if t.isActive { return nil }
AlreadyActive(t) == t.isActive

\* if !t.isActive { return nil }
AlreadyInactive(t) == ~t.isActive

\* bookkeeping of one call: the operation, the error returned, isActive before it
Returned(op, err, n) ==
    /\ calls' = calls + 1
    /\ extOps' = extOps + n
    /\ last' = [op |-> op, err |-> err, was |-> tc.isActive]
    /\ UNCHANGED <<parseVars, captureVars, poolVars>>

\* linux Start; o names the first external call that fails ("none": all succeed),
\* qdel is whether the QdiscDel issued after a failed FilterAdd succeeds
StartLinux(o, qdel) ==
    /\ tc.platform = "linux" /\ calls < MaxCalls
    /\ IF AlreadyActive(tc)
       THEN o = "none" /\ qdel /\ UNCHANGED <<tc, ext>> /\ Returned("Start", "nil", 0)
       ELSE
       \/ /\ o = "load" /\ qdel
          /\ UNCHANGED <<tc, ext>>
          /\ Returned("Start", "loading objects", 1)
       \/ /\ o = "link" /\ qdel
          /\ tc' = [tc EXCEPT !.objs = TRUE]
          /\ ext' = [ext EXCEPT !.objs = @ + 1]
          /\ Returned("Start", "getting interface", 2)
       \/ /\ o = "qdisc" /\ qdel
          /\ tc' = [tc EXCEPT !.objs = TRUE]
          /\ ext' = [ext EXCEPT !.objs = @ + 1]
          /\ Returned("Start", "adding clsact qdisc", 3)
       \/ /\ o = "filter" /\ ~ext.qdisc
          /\ tc' = [tc EXCEPT !.objs = TRUE, !.qdisc = TRUE]
          /\ ext' = [ext EXCEPT !.objs = @ + 1, !.qdisc = ~qdel]
          /\ Returned("Start", "adding eBPF filter", 5)
       \/ /\ o = "none" /\ qdel /\ ~ext.qdisc /\ ~ext.filter
          /\ tc' = [tc EXCEPT !.objs = TRUE, !.qdisc = TRUE, !.filter = TRUE,
                              !.isActive = TRUE]
          /\ ext' = [ext EXCEPT !.objs = @ + 1, !.qdisc = TRUE, !.filter = TRUE]
          /\ Returned("Start", "nil", 4)

\* linux Stop; o names the external call that fails ("none": all succeed).
\* FilterDel and QdiscDel cannot succeed on what is not installed.
StopLinux(o) ==
    /\ tc.platform = "linux" /\ calls < MaxCalls
    /\ IF AlreadyInactive(tc)
       THEN o = "none" /\ UNCHANGED <<tc, ext>> /\ Returned("Stop", "nil", 0)
       ELSE
       \/ /\ o = "filter"
          /\ UNCHANGED <<tc, ext>>
          /\ Returned("Stop", "deleting filter", 1)
       \/ /\ o = "qdisc" /\ ext.filter
          /\ ext' = [ext EXCEPT !.filter = FALSE]
          /\ UNCHANGED tc
          /\ Returned("Stop", "deleting qdisc", 2)
       \/ /\ o = "close" /\ ext.filter /\ ext.qdisc
          /\ ext' = [ext EXCEPT !.filter = FALSE, !.qdisc = FALSE]
          /\ UNCHANGED tc
          /\ Returned("Stop", "closing objects", 3)
       \/ /\ o = "none" /\ ext.filter /\ ext.qdisc
          /\ ext' = [ext EXCEPT !.filter = FALSE, !.qdisc = FALSE, !.objs = @ - 1]
          /\ tc' = [tc EXCEPT !.isActive = FALSE]
          /\ Returned("Stop", "nil", 3)

\* macOS Start; o names the step that fails ("none": all succeed)
StartDarwin(o) ==
    /\ tc.platform = "darwin" /\ calls < MaxCalls
    /\ IF AlreadyActive(tc)
       THEN o = "none" /\ UNCHANGED <<tc, ext>> /\ Returned("Start", "nil", 0)
       ELSE
       \/ /\ o = "lookpath"
          /\ UNCHANGED <<tc, ext>>
          /\ Returned("Start", "pfctl not found", 1)
       \/ /\ o = "tempfile"
          /\ tc' = [tc EXCEPT !.filterRules = @ + 1]
          /\ UNCHANGED ext
          /\ Returned("Start", "failed to create temporary pf rules file", 2)
       \/ /\ o = "pfctl"
          /\ tc' = [tc EXCEPT !.filterRules = @ + 1, !.tempFile = calls + 1]
          /\ UNCHANGED ext
          /\ Returned("Start", "failed to load packet filter rules", 4)
       \/ /\ o = "none"
          /\ tc' = [tc EXCEPT !.filterRules = @ + 1, !.tempFile = calls + 1,
                              !.isActive = TRUE]
          /\ ext' = [ext EXCEPT !.pf = TRUE, !.files = @ \cup {calls + 1}]
          /\ Returned("Start", "nil", 3)

\* macOS Stop; o names the step that fails ("none": all succeed)
StopDarwin(o) ==
    /\ tc.platform = "darwin" /\ calls < MaxCalls
    /\ IF AlreadyInactive(tc)
       THEN o = "none" /\ UNCHANGED <<tc, ext>> /\ Returned("Stop", "nil", 0)
       ELSE
       \/ /\ o = "pfctl"
          /\ UNCHANGED <<tc, ext>>
          /\ Returned("Stop", "failed to disable packet filter", 1)
       \/ /\ o = "none"
          /\ tc' = [tc EXCEPT !.isActive = FALSE, !.filterRules = 0]
          /\ ext' = [ext EXCEPT !.pf = FALSE,
                                !.files = IF tc.tempFile # 0 THEN @ \ {tc.tempFile} ELSE @]
          /\ Returned("Stop", "nil", IF tc.tempFile # 0 THEN 2 ELSE 1)

NextTC ==
    \/ \E o \in {"load", "link", "qdisc", "filter", "none"}, qdel \in BOOLEAN :
          StartLinux(o, qdel)
    \/ \E o \in {"filter", "qdisc", "close", "none"} : StopLinux(o)
    \/ \E o \in {"lookpath", "tempfile", "pfctl", "none"} : StartDarwin(o)
    \/ \E o \in {"pfctl", "none"} : StopDarwin(o)

(***************************************************************************)
(* Demultiplexer harness: one frame, parseEthernetPayload applied to it.   *)
(***************************************************************************)
\* IPv6 fixed header with the given next-header
MkIPv6(nextHeader, payload) ==
    <<96, 0, 0, 0, 0, 0, nextHeader, 64>> \o Rep(16, 32) \o Rep(16, 33) \o payload

\* UDP header with the given ports
MkUDP(srcPort, dstPort, payload) ==
    <<srcPort \div 256, srcPort % 256, dstPort \div 256, dstPort % 256, 0, 8, 0, 0>>
    \o payload

\* EtherTypes on the wire: ARP, IPv4, IPv6 and one the demultiplexer does not know
EtherTypes == {2054, 2048, 34525, 2049}

\* payload lengths around the three minimum header sizes
RawLens == {0, 1, 19, 20, 27, 28, 39, 40}

\* ports: HTTP, HTTPS, DNS and an unassigned one
Ports == {80, 443, 53, 1234}

\* application payload lengths: empty, below the TLS header, below the DNS
\* header, and long enough for either
AppLens == {0, 3, 6, 16}

\* header-length nibbles of the IPv4 and TCP headers: minimal and with options
HdrWords == {5, 6}

\* frames whose payload is filler (0x45: IPv4 with IHL 5 and an unknown protocol)
RawFrames == {MkEth(1, 2, t, Rep(n, 69)) : t \in EtherTypes, n \in RawLens}

\* the transport segments carried
Segments ==
    {MkTCP(s, d, off, Rep(n, 7)) : s \in Ports, d \in Ports, off \in HdrWords, n \in AppLens}
    \cup {MkUDP(s, d, Rep(n, 7)) : s \in {53, 1234}, d \in {53, 1234}, n \in AppLens}

\* IPv4 and IPv6 frames carrying TCP, UDP, ICMP and ICMPv6
IPFrames ==
    {MkEth(1, 2, 2048, MkIPv4(ihl, 6, seg)) : ihl \in HdrWords,
        seg \in {x \in Segments : Len(x) >= 20}}
    \cup {MkEth(1, 2, 2048, MkIPv4(5, 17, seg)) : seg \in {x \in Segments : Len(x) < 28}}
    \cup {MkEth(1, 2, 34525, MkIPv6(6, seg)) : seg \in {x \in Segments : Len(x) >= 20}}
    \cup {MkEth(1, 2, 34525, MkIPv6(17, seg)) : seg \in {x \in Segments : Len(x) < 28}}
    \cup {MkEth(1, 2, 2048, MkIPv4(5, p, Rep(n, 8))) : p \in {1, 58}, n \in {4, 8, 12}}
    \cup {MkEth(1, 2, 34525, MkIPv6(p, Rep(n, 128))) : p \in {1, 58}, n \in {4, 8, 12}}

DemuxFrames == RawFrames \cup IPFrames \cup {FrameBadIHL, FrameBadOff}

InitDemux == inp \in DemuxFrames /\ out = NoOut

\* frame, passive and parseEthernetPayload(passive) as the capture loop does them
ApplyParseEthernetPayload ==
    Apply("parseEthernetPayload", BuildPassive(1, 1, inp, Len(inp)))

NextDemux == ApplyParseEthernetPayload

(***************************************************************************)
(* BGP harness: one message, a sub-parser applied to what ParsedBGP made   *)
(* of it; and one set of OPEN fields taken through NewBGPOpen, Bytes,      *)
(* ParsedBGP and ParsedBGPOpen.                                            *)
(***************************************************************************)
MaxSect == 3         \* declared and present bytes of a variable-length section

\* a message with the given type tag and body, the header as Bytes() writes it
MkBGP(type, body) == BGPBytes(NewBGP(type, body))

\* UPDATE body declaring w withdrawn bytes and p attribute bytes, holding a and b
MkUpdateBody(w, a, p, b) == U16Bytes(w) \o Rep(a, 170) \o U16Bytes(p) \o Rep(b, 187)

\* bodies whose declared lengths, added up in uint16, wrap around
WideUpdateBodies ==
    {MkUpdateBody(0, 0, TwoTo16 - 4, TwoTo16 - 4),
     MkUpdateBody(TwoTo16 - 2, TwoTo16 - 2, 0, 0)}

UpdateBodies ==
    {MkUpdateBody(w, a, p, b) : w \in 0..MaxSect, a \in 0..MaxSect,
                                p \in 0..MaxSect, b \in 0..MaxSect}
    \cup {Rep(n, 0) : n \in 0..3}
    \cup WideUpdateBodies

\* optional-parameter lengths: small ones and those around the uint8 wrap of 10+n
OptLens == {0, 1, 2, 3, 8, 245, 246, 255}

\* OPEN body declaring n optional-parameter bytes and holding k
MkOpenBody(n, k) == <<4, 253, 233, 0, 180, 192, 168, 1, 1, n>> \o Rep(k, 2)

OpenBodies ==
    {MkOpenBody(n, k) : n \in OptLens, k \in OptLens} \cup {Rep(n, 4) : n \in {0, 2, 9}}

BGPMessages ==
    {MkBGP(t, body) : t \in {1, 2, 3}, body \in (UpdateBodies \ WideUpdateBodies)}
    \cup {MkBGP(2, body) : body \in WideUpdateBodies}
    \cup {MkBGP(t, body) : t \in {1, 2}, body \in OpenBodies}
    \cup {Rep(n, 255) : n \in {0, 18}}

InitBGP == inp \in BGPMessages /\ out = NoOut

\* the bytes of bgp.MessageBody
BodyOf(data) == LET bgp == ParsedBGP(data)
                IN  IF bgp.st = "ok" THEN Bytes(data, bgp.MessageBody) ELSE <<>>

ApplyParsedBGPUpdate ==
    Apply("ParsedBGPUpdate", ParsedBGPUpdate(ParsedBGP(inp), BodyOf(inp)))

ApplyParsedBGPOpen ==
    Apply("ParsedBGPOpen", ParsedBGPOpen(ParsedBGP(inp), BodyOf(inp)))

NextBGP == ApplyParsedBGPUpdate \/ ApplyParsedBGPOpen

\* arguments of NewBGPOpen, as <<asNumber, holdTime, routerID high, routerID low>>
\* followed by the optional-parameter bytes
ASNumbers == {0, 65001, 65535}
HoldTimes == {0, 180}
RouterIDs == {<<0, 0>>, <<49320, 257>>, <<65535, 65535>>}
RoundTripOptLens == OptLens \cup {256}

OpenArgs == {<<as, hold, id[1], id[2]>> \o [i \in 1..n |-> (i * 7) % 256] :
                as \in ASNumbers, hold \in HoldTimes, id \in RouterIDs,
                n \in RoundTripOptLens}

InitBGPOpenRoundTrip == inp \in OpenArgs /\ out = NoOut

\* serialized := NewBGPOpen(...).Bytes(); parsed := ParsedBGP(serialized);
\* parsedOpen := ParsedBGPOpen(parsed)
BGPOpenRoundTrip(asNumber, holdTime, routerID, optionalParams) ==
    LET serialized == BGPBytes(NewBGPOpen(asNumber, holdTime, routerID, optionalParams))
        parsed     == ParsedBGP(serialized)
        parsedOpen == ParsedBGPOpen(parsed, BodyOf(serialized))
    IN  IF parsedOpen.st # "ok" THEN parsedOpen
        ELSE [parsedOpen EXCEPT
                !.OptionalParameters = Bytes(BodyOf(serialized), parsedOpen.OptionalParameters)]
             @@ [Length |-> parsed.Length, Serialized |-> Len(serialized)]

ApplyBGPOpenRoundTrip ==
    Apply("BGPOpenRoundTrip",
          BGPOpenRoundTrip(inp[1], inp[2], <<inp[3], inp[4]>>, SubSeq(inp, 5, Len(inp))))

NextBGPOpenRoundTrip == ApplyBGPOpenRoundTrip

(***************************************************************************)
(* ICMPv6 harness: source and destination address followed by the bytes of *)
(* one ICMPv6 message.                                                     *)
(***************************************************************************)
MaxBody == 5         \* bytes of an ICMPv6 message body

\* 2001:db8::n
DocAddr(n) == <<32, 1, 13, 184>> \o Rep(11, 0) \o <<n>>

Addrs == {Rep(16, 0), DocAddr(1), DocAddr(2), Rep(16, 255)}

\* Echo Request, Echo Reply, Neighbor Solicitation, and the extremes
ICMPv6Types == {0, 128, 129, 135, 255}

ICMPv6Messages ==
    {<<t, 0, 18, 52>> \o Rep(n, b) : t \in ICMPv6Types, n \in 0..MaxBody,
                                     b \in {0, 1, 170, 255}}
    \cup {Rep(k, 128) : k \in 0..3}

ICMPv6Inputs == {s \o d \o m : s \in Addrs, d \in Addrs, m \in ICMPv6Messages}

InitICMPv6 == inp \in ICMPv6Inputs /\ out = NoOut

SrcOf(x) == SubSeq(x, 1, 16)
DstOf(x) == SubSeq(x, 17, 32)
MessageOf(x) == SubSeq(x, 33, Len(x))

\* the struct ParsedICMPv6 returns, its MessageBody held by value
ICMPv6Of(x) ==
    LET i == ParsedICMPv6(MessageOf(x))
    IN  IF i.st = "ok" THEN [i EXCEPT !.MessageBody = Bytes(MessageOf(x), i.MessageBody)]
        ELSE i

ApplyParsedICMPv6Echo ==
    LET i == ICMPv6Of(inp)
    IN  Apply("ParsedICMPv6Echo",
              ParsedICMPv6Echo(i, IF i.st = "ok" THEN i.MessageBody ELSE <<>>))

\* icmpv6.Checksum = icmpv6.CalculateChecksum(src, dst), then the checksum run
\* over the pseudo-header and the message as it now serializes
ChecksumThenVerify(i, srcIP, dstIP) ==
    LET checksum == CalculateChecksum(i, srcIP, dstIP)
        sealed   == ICMPv6Bytes([i EXCEPT !.Checksum = checksum])
    IN  [st |-> "ok", Checksum |-> checksum,
         Verify |-> calculateInternetChecksum(PseudoHeader(srcIP, dstIP, Len(sealed))
                                              \o sealed)]

ApplyChecksumThenVerify ==
    /\ ICMPv6Of(inp).st = "ok"
    /\ Apply("ChecksumThenVerify", ChecksumThenVerify(ICMPv6Of(inp), SrcOf(inp), DstOf(inp)))

NextICMPv6 == ApplyParsedICMPv6Echo \/ ApplyChecksumThenVerify

(***************************************************************************)
(* OSPF harnesses: the arguments of NewOSPFHello taken through Bytes,      *)
(* ParsedOSPF and ParsedOSPFHello; and calculateFletcherChecksum applied   *)
(* to one byte string.                                                     *)
(***************************************************************************)
MaxNeighbors == 2    \* routers in a neighbor list

\* 192.168.1.1, 192.168.1.2 and 255.255.255.255
RouterAddrs == {<<49320, 257>>, <<49320, 258>>, <<65535, 65535>>}

RECURSIVE SeqsUpTo(_, _)
SeqsUpTo(S, n) ==
    IF n = 0 THEN {<<>>}
    ELSE LET shorter == SeqsUpTo(S, n - 1)
         IN  shorter \cup {Append(q, x) : q \in {r \in shorter : Len(r) = n - 1}, x \in S}

\* the ten arguments of NewOSPFHello, the neighbors last
HelloArgs ==
    {<<routerID, areaID, <<65535, 65280>>, helloInterval, 2, routerPriority,
       <<0, 40>>, routerID, <<0, 0>>, neighbors>> :
        routerID \in {<<49320, 257>>, <<65535, 65535>>},
        areaID \in {<<0, 0>>, <<0, 1>>},
        helloInterval \in {10, 65535},
        routerPriority \in {1, 255},
        neighbors \in SeqsUpTo(RouterAddrs \ {<<65535, 65535>>}, MaxNeighbors)}

InitOSPFHelloRoundTrip == inp \in HelloArgs /\ out = NoOut

\* ospfHello := NewOSPFHello(...); serialized := ospfHello.Bytes();
\* parsed := ParsedOSPF(serialized); parsedHello := ParsedOSPFHello(parsed)
OSPFHelloRoundTrip(a) ==
    LET ospfHello   == NewOSPFHello(a[1], a[2], a[3], a[4], a[5], a[6], a[7], a[8],
                                    a[9], a[10])
        serialized  == OSPFBytes(ospfHello)
        parsed      == ParsedOSPF(serialized)
        body        == IF parsed.st = "ok" THEN Bytes(serialized, parsed.MessageBody)
                       ELSE <<>>
        parsedHello == ParsedOSPFHello(parsed, body)
    IN  IF parsed.st # "ok" \/ parsedHello.st # "ok"
        THEN [st |-> "fault"]
        ELSE [st |-> "ok", built |-> ospfHello, parsed |-> parsed,
              parsedHello |-> parsedHello]

ApplyOSPFHelloRoundTrip == Apply("OSPFHelloRoundTrip", OSPFHelloRoundTrip(inp))

NextOSPFHelloRoundTrip == ApplyOSPFHelloRoundTrip

MaxFletcherLen == 17 \* bytes given to calculateFletcherChecksum

\* byte i (0-based) of pattern k: 0 counts up, 1 counts up with a zeroed
\* checksum field (the RFC 1008 vector at 16 bytes), 2 is all 0xFF, 3 counts up
\* from byte 2 on behind 00 01, 4 counts down
FletcherByte(k, i) ==
    CASE k = 0 -> i
      [] k = 1 -> IF i \in {12, 13} THEN 0 ELSE i
      [] k = 2 -> 255
      [] k = 3 -> IF i < 2 THEN i ELSE IF i = 15 THEN 15 ELSE 100 + i
      [] k = 4 -> 255 - i

FletcherInputs ==
    {[i \in 1..n |-> FletcherByte(k, i - 1)] : n \in 0..MaxFletcherLen, k \in 0..4}

InitFletcher == inp \in FletcherInputs /\ out = NoOut

ApplyCalculateFletcherChecksum ==
    Apply("calculateFletcherChecksum",
          [st |-> "ok", Checksum |-> calculateFletcherChecksum(inp)])

NextFletcher == ApplyCalculateFletcherChecksum

(***************************************************************************)
(* OSPF checksum harness: the arguments of NewOSPF followed by a value     *)
(* written into the Checksum field before CalculateChecksum is called      *)
(* again.                                                                  *)
(***************************************************************************)
MaxOSPFBody == 4     \* bytes of message body given to NewOSPF

\* values a Checksum field can hold: zero, one, the RFC 1008 constant, all ones
StoredChecksums == {0, 1, 44021, 65535}

\* <<packetType, routerID, areaID, messageBody, stored>>
OSPFChecksumArgs ==
    {<<packetType, routerID, areaID, [i \in 1..n |-> (k * i) % TwoTo8], stored>> :
        packetType \in {1, 2},
        routerID \in {<<49320, 257>>, <<49320, 258>>},
        areaID \in {<<0, 0>>, <<0, 1>>},
        n \in 0..MaxOSPFBody, k \in {1, 255},
        stored \in StoredChecksums}

InitOSPFChecksum == inp \in OSPFChecksumArgs /\ out = NoOut

\* ospfPacket := NewOSPF(...); ospfPacket.CalculateChecksum();
\* ospfPacket.Checksum = stored; ospfPacket.CalculateChecksum()
OSPFChecksumTwice(a) ==
    LET ospfPacket == NewOSPF(a[1], a[2], a[3], a[4])
    IN  [st |-> "ok",
         originalChecksum |-> ospfPacket.Checksum,
         recalculatedChecksum |-> OSPFCalculateChecksum(ospfPacket),
         overwrittenChecksum |->
             OSPFCalculateChecksum([ospfPacket EXCEPT !.Checksum = a[5]])]

ApplyOSPFChecksumTwice == Apply("OSPFChecksumTwice", OSPFChecksumTwice(inp))

NextOSPFChecksum == ApplyOSPFChecksumTwice

(***************************************************************************)
(* buffer_pool.go: the global BufferPool and the three global BytesPools.  *)
(* A byte array is its capacity and the set of indices that hold a         *)
(* non-zero byte; a slice is a window [arr, off, len] onto an array.  The   *)
(* users of the pools hold a reference to every array and buffer that was  *)
(* ever allocated, before and after they put it back.                      *)
(***************************************************************************)
SmallPacketSize  == 128
MediumPacketSize == 1500
LargePacketSize  == 9000

MaxPoolOps == 4   \* calls made by the users of the pools
MaxArrays  == 2   \* byte arrays allocated
MaxBuffers == 2   \* bytes.Buffer objects allocated

PoolNames == {"small", "medium", "large"}

\* smallBytesPool, mediumBytesPool, largeBytesPool: the size given to NewBytesPool
PoolSize(p) ==
    CASE p = "small"  -> SmallPacketSize
      [] p = "medium" -> MediumPacketSize
      [] p = "large"  -> LargePacketSize

NoRet == [fn |-> "none"]

InitPoolIdle ==
    /\ arrays = <<>>
    /\ bytesPools = [p \in PoolNames |-> <<>>]
    /\ buffers = <<>>
    /\ bufferPool = <<>>
    /\ poolOps = MaxPoolOps
    /\ poolRet = NoRet

InitPool ==
    /\ arrays = <<>>
    /\ bytesPools = [p \in PoolNames |-> <<>>]
    /\ buffers = <<>>
    /\ bufferPool = <<>>
    /\ poolOps = 0
    /\ poolRet = NoRet

\* cap(buf)
Cap(arrs, s) == arrs[s.arr].cap - s.off

\* the indices of the array that the slice covers
Indices(s) == s.off..(s.off + s.len - 1)

\* the items of a sync.Pool without the i-th
Without(items, i) == SubSeq(items, 1, i - 1) \o SubSeq(items, i + 1, Len(items))

PoolCall ==
    /\ poolOps < MaxPoolOps
    /\ poolOps' = poolOps + 1
    /\ UNCHANGED <<parseVars, captureVars, tcVars>>

\* BytesPool.Get that hands the slice out as the pool held it
Clear_Nothing(arrs, s) == arrs

\* for i := range buf { buf[i] = 0 }
Clear(arrs, s) == [arrs EXCEPT ![s.arr].nz = @ \ Indices(s)]

\* what the caller of Get holds on return: the slice, its length and the
\* positions in it that hold a non-zero byte
ReturnedBytes(fn, p, size, arrs, s) ==
    [fn |-> fn, pool |-> p, size |-> size, buf |-> s, len |-> s.len,
     nonzero |-> {i - s.off : i \in arrs[s.arr].nz \cap Indices(s)}]

\* BytesPool.Get on pool p.  p.pool.Get() yields an item put earlier, or, when
\* sync.Pool has none to give (nothing was put, or it dropped what was put),
\* the result of New: make([]byte, size)
BytesPoolGet(fn, p, size) ==
    \/ \E i \in 1..Len(bytesPools[p]) :
          LET s == bytesPools[p][i]
          IN  /\ bytesPools' = [bytesPools EXCEPT ![p] = Without(@, i)]
              /\ arrays' = Clear(arrays, s)
              /\ poolRet' = ReturnedBytes(fn, p, size, arrays', s)
    \/ /\ Len(arrays) < MaxArrays
       /\ LET made == Append(arrays, [cap |-> PoolSize(p), nz |-> {}])
              s    == [arr |-> Len(made), off |-> 0, len |-> PoolSize(p)]
          IN  /\ arrays' = Clear(made, s)
              /\ poolRet' = ReturnedBytes(fn, p, size, arrays', s)
       /\ UNCHANGED bytesPools

\* BytesPool.Put on pool p
BytesPoolPut(p, s) ==
    /\ bytesPools' = IF Cap(arrays, s) >= PoolSize(p)
                     THEN [bytesPools EXCEPT
                              ![p] = Append(@, [arr |-> s.arr, off |-> s.off,
                                                len |-> PoolSize(p)])]
                     ELSE bytesPools
    /\ UNCHANGED <<arrays, poolRet>>

\* GetSmallBytes, GetMediumBytes, GetLargeBytes
GetPoolBytes ==
    /\ PoolCall
    /\ \E p \in PoolNames : BytesPoolGet("Get", p, PoolSize(p))
    /\ UNCHANGED <<buffers, bufferPool>>

\* the slices a user can form: any array, from its start or from its second byte
UserSlices ==
    {[arr |-> a, off |-> o, len |-> arrays[a].cap - o] :
        a \in 1..Len(arrays), o \in {0, 1}}

\* PutSmallBytes, PutMediumBytes, PutLargeBytes
PutPoolBytes ==
    /\ PoolCall
    /\ \E p \in PoolNames, s \in UserSlices : BytesPoolPut(p, s)
    /\ UNCHANGED <<buffers, bufferPool>>

\* the sizes asked of GetBytes: around each threshold
RequestSizes == {0, 100, 128, 129, 1500, 1501, 9000, 9001}

GetBytes ==
    /\ PoolCall
    /\ \E size \in RequestSizes :
          IF size <= SmallPacketSize THEN BytesPoolGet("GetBytes", "small", size)
          ELSE IF size <= MediumPacketSize THEN BytesPoolGet("GetBytes", "medium", size)
          ELSE BytesPoolGet("GetBytes", "large", size)
    /\ UNCHANGED <<buffers, bufferPool>>

PutBytes ==
    /\ PoolCall
    /\ \E s \in UserSlices :
          LET capacity == Cap(arrays, s)
          IN  IF capacity <= SmallPacketSize THEN BytesPoolPut("small", s)
              ELSE IF capacity <= MediumPacketSize THEN BytesPoolPut("medium", s)
              ELSE IF capacity <= LargePacketSize THEN BytesPoolPut("large", s)
              ELSE UNCHANGED <<arrays, bytesPools, poolRet>>
    /\ UNCHANGED <<buffers, bufferPool>>

\* a user writes into an array it holds: buf[i] = byte(i + 1)
WriteBytes ==
    /\ PoolCall
    /\ \E a \in 1..Len(arrays) :
          arrays' = [arrays EXCEPT ![a].nz = 0..(arrays[a].cap - 1)]
    /\ UNCHANGED <<bytesPools, poolRet, buffers, bufferPool>>

\* the capacities of arrays users allocate themselves: around each pool size
UserCaps == {127, 129, 1500, 9001}

\* a user allocates and fills an array of its own: make([]byte, n)
MakeBytes ==
    /\ PoolCall
    /\ Len(arrays) < MaxArrays
    /\ \E c \in UserCaps :
          arrays' = Append(arrays, [cap |-> c, nz |-> 0..(c - 1)])
    /\ UNCHANGED <<bytesPools, poolRet, buffers, bufferPool>>

\* bytes.Buffer.Reset
Reset(bufs, b) == [bufs EXCEPT ![b] = <<>>]

\* BufferPool.Get / GetBuffer
BufferPoolGet ==
    /\ PoolCall
    /\ \/ \E i \in 1..Len(bufferPool) :
             LET b == bufferPool[i]
             IN  /\ bufferPool' = Without(bufferPool, i)
                 /\ buffers' = Reset(buffers, b)
                 /\ poolRet' = [fn |-> "BufferPool.Get", buf |-> b,
                                len |-> Len(buffers'[b])]
       \/ /\ Len(buffers) < MaxBuffers
          /\ LET made == Append(buffers, <<>>)
                 b  == Len(made)
             IN  /\ buffers' = Reset(made, b)
                 /\ poolRet' = [fn |-> "BufferPool.Get", buf |-> b,
                                len |-> Len(buffers'[b])]
          /\ UNCHANGED bufferPool
    /\ UNCHANGED <<arrays, bytesPools>>

\* BufferPool.Put / PutBuffer
BufferPoolPut ==
    /\ PoolCall
    /\ \E b \in 1..Len(buffers) : bufferPool' = Append(bufferPool, b)
    /\ UNCHANGED <<arrays, bytesPools, buffers, poolRet>>

\* a user writes to a buffer it holds: buf.WriteString("test")
WriteBuffer ==
    /\ PoolCall
    /\ \E b \in 1..Len(buffers) :
          /\ Len(buffers[b]) < 2
          /\ buffers' = [buffers EXCEPT ![b] = Append(@, 116)]
    /\ UNCHANGED <<arrays, bytesPools, bufferPool, poolRet>>

NextPool ==
    \/ GetPoolBytes
    \/ PutPoolBytes
    \/ GetBytes
    \/ PutBytes
    \/ WriteBytes
    \/ MakeBytes
    \/ BufferPoolGet
    \/ BufferPoolPut
    \/ WriteBuffer

(***************************************************************************)
(* newNetworkInterfacePlatform: the addresses recorded when an interface   *)
(* is opened.  A net.IP is its 4 or 16 bytes, nil the empty sequence; an   *)
(* element of intf.Addrs() is [type, IP].                                  *)
(***************************************************************************)
NilIP == <<>>

\* net.IP.To4
To4(ip) ==
    IF Len(ip) = 4 THEN ip
    ELSE IF /\ Len(ip) = 16
            /\ \A i \in 1..10 : ip[i] = 0
            /\ ip[11] = 255 /\ ip[12] = 255
         THEN SubSeq(ip, 13, 16)
    ELSE NilIP

\* net.IP.To16
To16(ip) ==
    IF Len(ip) = 4 THEN Rep(10, 0) \o <<255, 255>> \o ip
    ELSE IF Len(ip) = 16 THEN ip
    ELSE NilIP

\* net.IP.IsLoopback
IsLoopback(ip) ==
    IF To4(ip) # NilIP THEN To4(ip)[1] = 127
    ELSE ip = Rep(15, 0) \o <<1>>

\* one iteration of the linux loop over ipAddrs; acc holds ipAddr and ipv6Addr
ScanAddrLinux(acc, addr) ==
    LET ip == IF addr.type \in {"IPNet", "IPAddr"} THEN addr.IP ELSE NilIP
    IN  IF ip = NilIP \/ IsLoopback(ip) THEN acc
        ELSE IF To4(ip) # NilIP THEN [acc EXCEPT !.ipAddr = BE32(To4(ip), 0)]
        ELSE IF To16(ip) # NilIP /\ acc.ipv6Addr = NilIP
             THEN [acc EXCEPT !.ipv6Addr = ip]
        ELSE acc

\* one iteration of the macOS loop over ipAddrs
ScanAddrDarwin(acc, addr) ==
    IF addr.type # "IPNet" THEN acc
    ELSE IF To4(addr.IP) # NilIP THEN [acc EXCEPT !.ipAddr = BE32(To4(addr.IP), 0)]
    ELSE IF To16(addr.IP) # NilIP /\ acc.ipAddr = <<0, 0>>
         THEN [acc EXCEPT !.ipv6Addr = addr.IP]
    ELSE acc

\* for _, addr := range ipAddrs, from the k-th address on
RECURSIVE ScanAddrs(_, _, _, _)
ScanAddrs(platform, ipAddrs, k, acc) ==
    IF k > Len(ipAddrs) THEN acc
    ELSE ScanAddrs(platform, ipAddrs, k + 1,
                   IF platform = "linux" THEN ScanAddrLinux(acc, ipAddrs[k])
                   ELSE ScanAddrDarwin(acc, ipAddrs[k]))

\* the address fields of the NetworkInterface that newNetworkInterfacePlatform
\* returns for an interface bound to ipAddrs, the socket / pcap handle opening
\* without error
newNetworkInterfacePlatform(platform, ipAddrs) ==
    LET found == ScanAddrs(platform, ipAddrs, 1,
                           [ipAddr |-> <<0, 0>>, ipv6Addr |-> NilIP])
    IN  IF platform = "darwin" /\ found.ipAddr = <<0, 0>> /\ found.ipv6Addr = NilIP
        THEN [st |-> "error"]
        ELSE [st |-> "ok", IPAddr |-> found.ipAddr, IPv6Addr |-> found.ipv6Addr]

getNetworkInfoPlatform(nwif) ==
    [ipv4Addr |-> U32Bytes(nwif.IPAddr), ipv6Addr |-> nwif.IPv6Addr]

MaxAddrs == 3   \* addresses bound to the interface

\* 10.0.0.1, 10.0.0.2, 127.0.0.1, 2001:db8::1, fe80::1 and ::1
BoundIPs ==
    {<<10, 0, 0, 1>>, <<10, 0, 0, 2>>, <<127, 0, 0, 1>>,
     <<32, 1, 13, 184>> \o Rep(11, 0) \o <<1>>,
     <<254, 128>> \o Rep(13, 0) \o <<1>>,
     Rep(15, 0) \o <<1>>}

BoundAddrs ==
    {[type |-> "IPNet", IP |-> ip] : ip \in BoundIPs}
    \cup {[type |-> "IPAddr", IP |-> <<10, 0, 0, 2>>]}

RECURSIVE AddrLists(_)
AddrLists(n) ==
    IF n = 0 THEN {<<>>}
    ELSE LET shorter == AddrLists(n - 1)
         IN  shorter \cup {Append(q, a) : q \in {r \in shorter : Len(r) = n - 1},
                                         a \in BoundAddrs}

InitOpen == inp \in AddrLists(MaxAddrs) /\ out = NoOut

\* nwif, err := NewNetworkInterface(name); nwif.GetNetworkInfo()
OpenThenGetNetworkInfo(platform, ipAddrs) ==
    LET nwif == newNetworkInterfacePlatform(platform, ipAddrs)
    IN  IF nwif.st # "ok" THEN nwif
        ELSE [st |-> "ok", nwif |-> nwif, info |-> getNetworkInfoPlatform(nwif)]

ApplyOpenLinux  == Apply("OpenLinux", OpenThenGetNetworkInfo("linux", inp))
ApplyOpenDarwin == Apply("OpenDarwin", OpenThenGetNetworkInfo("darwin", inp))

NextOpen == ApplyOpenLinux \/ ApplyOpenDarwin

(***************************************************************************)
(* Specifications                                                          *)
(***************************************************************************)
\* the capture pipeline and the handle
Init == InitParseIdle /\ InitCapture /\ InitTCIdle /\ InitPoolIdle
Next == NextCapture
Spec == Init /\ [][Next]_vars

\* the parsers applied to bounded inputs
ParseInit == InitParse /\ InitCaptureIdle /\ InitTCIdle /\ InitPoolIdle
ParseNext == NextParse
ParseSpec == ParseInit /\ [][ParseNext]_vars

\* the filter manager
TCInit == InitParseIdle /\ InitCaptureIdle /\ InitTC /\ InitPoolIdle
TCNext == NextTC
TCSpec == TCInit /\ [][TCNext]_vars

\* the demultiplexer applied to bounded frames
DemuxInit == InitDemux /\ InitCaptureIdle /\ InitTCIdle /\ InitPoolIdle
DemuxNext == NextDemux
DemuxSpec == DemuxInit /\ [][DemuxNext]_vars

\* the BGP sub-parsers applied to bounded messages
BGPInit == InitBGP /\ InitCaptureIdle /\ InitTCIdle /\ InitPoolIdle
BGPNext == NextBGP
BGPSpec == BGPInit /\ [][BGPNext]_vars

\* BGP OPEN serialized and parsed back
BGPOpenRoundTripInit == InitBGPOpenRoundTrip /\ InitCaptureIdle /\ InitTCIdle /\ InitPoolIdle
BGPOpenRoundTripNext == NextBGPOpenRoundTrip
BGPOpenRoundTripSpec == BGPOpenRoundTripInit /\ [][BGPOpenRoundTripNext]_vars

\* the ICMPv6 Echo sub-parser and checksum applied to bounded messages
ICMPv6Init == InitICMPv6 /\ InitCaptureIdle /\ InitTCIdle /\ InitPoolIdle
ICMPv6Next == NextICMPv6
ICMPv6Spec == ICMPv6Init /\ [][ICMPv6Next]_vars

\* OSPF Hello serialized and parsed back
OSPFHelloRoundTripInit == InitOSPFHelloRoundTrip /\ InitCaptureIdle /\ InitTCIdle /\ InitPoolIdle
OSPFHelloRoundTripNext == NextOSPFHelloRoundTrip
OSPFHelloRoundTripSpec == OSPFHelloRoundTripInit /\ [][OSPFHelloRoundTripNext]_vars

\* the Fletcher checksum applied to bounded byte strings
FletcherInit == InitFletcher /\ InitCaptureIdle /\ InitTCIdle /\ InitPoolIdle
FletcherNext == NextFletcher
FletcherSpec == FletcherInit /\ [][FletcherNext]_vars

OSPFChecksumInit == InitOSPFChecksum /\ InitCaptureIdle /\ InitTCIdle /\ InitPoolIdle
OSPFChecksumNext == NextOSPFChecksum
OSPFChecksumSpec == OSPFChecksumInit /\ [][OSPFChecksumNext]_vars

PoolInit == InitParseIdle /\ InitCaptureIdle /\ InitTCIdle /\ InitPool
PoolNext == NextPool
PoolSpec == PoolInit /\ [][PoolNext]_vars

OpenInit == InitOpen /\ InitCaptureIdle /\ InitTCIdle /\ InitPoolIdle
OpenNext == NextOpen
OpenSpec == OpenInit /\ [][OpenNext]_vars

\* the capture pipeline on well-formed traffic, with the scheduling the Go
\* runtime gives the capture goroutine: a runnable task step is eventually
\* taken, and a select whose ctx.Done() case is ready again and again eventually
\* takes it.  Nothing obliges the network to deliver a frame, or Recvfrom to fail
\* on an open socket.
LiveInit == Init /\ wire = <<"arp", "tcp80">>
FairSpec ==
    /\ LiveInit /\ [][Next]_vars
    /\ WF_vars(LinuxSelect) /\ WF_vars(LinuxRecvfromCall) /\ WF_vars(LinuxRecvBadFd)
    /\ WF_vars(Publish)
    /\ SF_vars(DarwinSelectDone)

(***************************************************************************)
(* What a holder of a record sees                                           *)
(***************************************************************************)
Range(q) == {q[i] : i \in 1..Len(q)}

LayerNames == {"ARP", "IPv4", "IPv6", "ICMP", "ICMPv6", "TCP", "UDP", "TLS", "DNS",
               "HTTP", "HTTPRes"}

\* the fields of each layer struct that are byte slices
SliceFields(name) ==
    CASE name = "ARP"    -> {"SenderMAC", "SenderIP", "TargetMAC", "TargetIP"}
      [] name = "IPv4"   -> {"SrcIP", "DstIP", "Options", "Payload"}
      [] name = "IPv6"   -> {"SrcIP", "DstIP", "Payload"}
      [] name = "TCP"    -> {"Options", "Payload"}
      [] name = "TLS"    -> {"Data"}
      [] name \in {"ICMP", "ICMPv6", "UDP", "DNS"} -> {"Payload"}
      [] OTHER -> {}

\* everything reachable from record r when the task's buf holds b: its scalar
\* fields and the bytes each of its slices shows
Contents(r, w, b) ==
    LET mem == Mem(r.EthernetFrame.mem, w, b)
    IN  [fields  |-> r,
         DstAddr |-> Bytes(mem, r.EthernetFrame.DstAddr),
         SrcAddr |-> Bytes(mem, r.EthernetFrame.SrcAddr),
         Payload |-> Bytes(mem, r.EthernetFrame.Payload),
         layers  |-> [name \in LayerNames |->
                        IF r[name].st # "ok" THEN <<>>
                        ELSE [f \in SliceFields(name) |->
                                Bytes(mem, <<r[name].base + r[name][f][1],
                                             r[name].base + r[name][f][2]>>)]]]

\* the records that have been sent on PassiveCh
Sent == Range(ch) \cup Range(got)

(***************************************************************************)
(* Claims                                                                  *)
(***************************************************************************)

\* C1: publishing never blocks the capture loop: whenever the task stands at the
\* send it can take a step, and if PassiveCh then holds ChanCap (100) records the
\* new record is discarded, the queue is left exactly as it was, and the task is
\* back at the top of its loop.
C1_PublishNeverBlocks ==
    /\ [](pc = "publish" => ENABLED Publish)
    /\ [][(pc = "publish" /\ pc' # "publish" /\ Len(ch) = ChanCap)
            => (ch' = ch /\ got' = got /\ pc' = "loop")]_vars

\* a record has been discarded on a full channel and the loop has gone on
C1_Witness == dropped > 0 /\ Len(ch) = ChanCap /\ pc \in {"default", "recv"}

\* C2: a record that has been sent on PassiveCh never changes afterwards: what
\* its holder reads through it (addresses, EtherType, payload, every layer's
\* slices) is the same before and after every step of the system.
C2_SentRecordImmutable ==
    [][\A r \in Sent \cap Sent' : Contents(r, wire, buf) = Contents(r, wire, buf')]_vars

\* C3: the capture task stops only on cancellation and no frame makes it fault.
C3_StopsOnlyOnCancel == pc # "panic" /\ (pc = "done" => cancelled)

\* C4: once the context is cancelled the capture task eventually returns.
C4_CancelLeadsToReturn == cancelled ~> (pc = "done")

\* C5: after cancellation no read of the capture resource begins.
C5_NoReadBeginsAfterCancel ==
    [][cancelled => ~(LinuxRecvfromCall \/ DarwinSelectPacket)]_vars

\* C6 (as claimed): when the task has exited, the capture resource is released.
C6_ReleasedOnExit == (pc = "done") => ~resOpen

\* C6 (amended): when the task has exited after cancellation, the capture
\* resource is released exactly if Close has been called on the handle; the
\* exit itself releases nothing.
C6_ReleasedExactlyByClose == (pc = "done") => (~resOpen <=> closeCalls > 0)

\* the task has exited after cancellation and Close has released the resource
C6_Witness == pc = "done" /\ cancelled /\ closeCalls > 0 /\ ~resOpen /\ releaseOps > 0

\* C7: however often Close is called, at most one release operation is issued.
C7_CloseReleasesOnce == releaseOps <= 1

\* C8: Start on an active manager and Stop on an inactive one return nil, issue
\* no external operation and leave the manager and the outside world as they were.
C8_StartStopIdempotent ==
    [][(calls' = calls + 1 /\ (\/ last'.op = "Start" /\ tc.isActive
                               \/ last'.op = "Stop" /\ ~tc.isActive))
         => (tc' = tc /\ ext' = ext /\ extOps' = extOps /\ last'.err = "nil")]_vars

\* Start has been called on a manager an earlier Start had activated
C8_Witness == calls >= 2 /\ last.op = "Start" /\ last.was /\ last.err = "nil" /\ extOps > 0

\* C9: ParseIPv4Packet and ParseTCPPacket return absent for every input of at
\* least 20 bytes whose declared header length is below 20 or above len(input).
C9_BadHeaderLenAbsent ==
    /\ (out.fn = "ParseIPv4Packet" /\ Len(inp) >= 20
          /\ ((inp[1] % 16) * 4 < 20 \/ (inp[1] % 16) * 4 > Len(inp)))
       => out.r.st = "absent"
    /\ (out.fn = "ParseTCPPacket" /\ Len(inp) >= 20
          /\ ((inp[13] \div 16) * 4 < 20 \/ (inp[13] \div 16) * 4 > Len(inp)))
       => out.r.st = "absent"

\* C10: every parser returns absent (no fault, no struct) for every input shorter
\* than its minimum header size, the empty input included.
C10_ShortInputAbsent ==
    LET min == [fn \in {"ParseARPPacket"} |-> 28] @@ [fn \in {"ParseIPv4Packet"} |-> 20]
               @@ [fn \in {"ParseIPv6Packet"} |-> 40] @@ [fn \in {"ParseICMPPacket"} |-> 8]
               @@ [fn \in {"ParseICMPv6Packet", "ParsedICMPv6"} |-> 4]
               @@ [fn \in {"ParseTCPPacket"} |-> 20] @@ [fn \in {"ParseUDPPacket"} |-> 8]
               @@ [fn \in {"ParseDNSRequest"} |-> 12] @@ [fn \in {"ParsedBGP"} |-> 19]
               @@ [fn \in {"ParsedOSPF"} |-> 24]
    IN  (out.fn # "none" /\ Len(inp) < min[out.fn]) => out.r.st = "absent"

\* ParseIPv6Packet has been handed 39 bytes and has returned absent
C10_Witness == out.fn = "ParseIPv6Packet" /\ Len(inp) = 39 /\ out.r.st = "absent"

(***************************************************************************)
(* What a frame carries, read off its bytes                                *)
(***************************************************************************)
EtherTypeOf(f) == BE16(f, 12)

EthPayloadOf(f) == SubSeq(f, 15, Len(f))

\* the frame carries IPv4 with a header that fits and the given protocol
CarriesIPv4(f, proto) ==
    LET p == EthPayloadOf(f) IN
    /\ EtherTypeOf(f) = 2048 /\ Len(p) >= 20
    /\ IPv4HeaderLen(p) >= 20 /\ IPv4HeaderLen(p) <= Len(p)
    /\ B(p, 9) = proto

\* the frame carries IPv6 with the given next-header
CarriesIPv6(f, proto) ==
    LET p == EthPayloadOf(f) IN
    EtherTypeOf(f) = 34525 /\ Len(p) >= 40 /\ B(p, 6) = proto

\* the bytes after the IP header
IPPayloadOf(f) ==
    LET p == EthPayloadOf(f) IN
    IF EtherTypeOf(f) = 2048 THEN SubSeq(p, IPv4HeaderLen(p) + 1, Len(p))
    ELSE SubSeq(p, 41, Len(p))

\* the frame carries a TCP segment whose header is well formed
CarriesTCP(f) ==
    /\ CarriesIPv4(f, 6) \/ CarriesIPv6(f, 6)
    /\ LET seg == IPPayloadOf(f) IN
       Len(seg) >= 20 /\ TCPDataOffset(seg) >= 20 /\ TCPDataOffset(seg) <= Len(seg)

\* the names among S of the layers record p has populated
PopulatedOf(p, S) == {name \in S : p[name].st = "ok"}

\* C11: every record parseEthernetPayload produces holds at most one populated
\* chain: at most one of ARP/IPv4/IPv6, at most one of ICMP/ICMPv6/TCP/UDP, at
\* most one of HTTP/HTTPRes/TLS/DNS, each only beneath its own parent layer.
C11_AtMostOneChain ==
    (out.fn = "parseEthernetPayload" /\ out.r.st = "ok") =>
        LET p == out.r IN
        /\ Cardinality(PopulatedOf(p, {"ARP", "IPv4", "IPv6"})) <= 1
        /\ Cardinality(PopulatedOf(p, {"ICMP", "ICMPv6", "TCP", "UDP"})) <= 1
        /\ Cardinality(PopulatedOf(p, {"HTTP", "HTTPRes", "TLS", "DNS"})) <= 1
        /\ p.ICMP.st = "ok" => p.IPv4.st = "ok"
        /\ p.ICMPv6.st = "ok" => p.IPv6.st = "ok"
        /\ (p.TCP.st = "ok" \/ p.UDP.st = "ok") => (p.IPv4.st = "ok" \/ p.IPv6.st = "ok")
        /\ (p.HTTP.st = "ok" \/ p.HTTPRes.st = "ok" \/ p.TLS.st = "ok") => p.TCP.st = "ok"
        /\ p.DNS.st = "ok" => (p.TCP.st = "ok" \/ p.UDP.st = "ok")

\* C12: parseEthernetPayload attempts the ARP, IPv4 or IPv6 parse exactly for
\* EtherType 0x0806, 0x0800 and 0x86DD and a payload of at least 28, 20 and 40
\* bytes; for any other EtherType or a shorter payload the record keeps only
\* its Ethernet frame and no error is raised.
C12_EtherTypeDispatch ==
    out.fn = "parseEthernetPayload" =>
        LET p == out.r
            t == EtherTypeOf(inp)
            n == Len(EthPayloadOf(inp))
            attempted == \/ t = 2054 /\ n >= 28
                         \/ t = 2048 /\ n >= 20
                         \/ t = 34525 /\ n >= 40
        IN  /\ p.ARP.st = "ok" <=> (t = 2054 /\ n >= 28)
            /\ p.IPv6.st = "ok" <=> (t = 34525 /\ n >= 40)
            /\ p.IPv4.st = "ok" => (t = 2048 /\ n >= 20)
            /\ (\E proto \in 0..255 : CarriesIPv4(inp, proto)) => p.IPv4.st = "ok"
            /\ ~attempted => (p.st = "ok" /\ PopulatedOf(p, LayerNames) = {})

C12_Witness ==
    /\ out.fn = "parseEthernetPayload"
    /\ EtherTypeOf(inp) = 2049 /\ Len(EthPayloadOf(inp)) = 40
    /\ out.r.st = "ok" /\ PopulatedOf(out.r, LayerNames) = {}

\* C13 as stated: a frame carrying TCP over IPv4 or IPv6 with a well-formed TCP
\* header yields a record with the IP layer and TCP populated, an HTTP request
\* when the destination port is 80 and an HTTP response when the source port is 80.
C13_TCPPort80Parsed ==
    (out.fn = "parseEthernetPayload" /\ CarriesTCP(inp)) =>
        LET p == out.r IN
        /\ p.st = "ok" /\ p.TCP.st = "ok"
        /\ IF EtherTypeOf(inp) = 2048 THEN p.IPv4.st = "ok" ELSE p.IPv6.st = "ok"
        /\ BE16(IPPayloadOf(inp), 2) = 80 => p.HTTP.st = "ok"
        /\ BE16(IPPayloadOf(inp), 0) = 80 => p.HTTPRes.st = "ok"

\* C13 (amended): the same frame yields the IP layer and TCP populated; when the
\* TCP payload is not empty it also yields an HTTP request if the destination
\* port is 80, and an HTTP response if the source port is 80 and the
\* destination port is not.
C13_TCPPort80ParsedWithPayload ==
    (out.fn = "parseEthernetPayload" /\ CarriesTCP(inp)) =>
        LET p   == out.r
            seg == IPPayloadOf(inp)
            hasData == Len(seg) > TCPDataOffset(seg)
            dst == BE16(seg, 2)
            src == BE16(seg, 0)
        IN  /\ p.st = "ok" /\ p.TCP.st = "ok"
            /\ IF EtherTypeOf(inp) = 2048 THEN p.IPv4.st = "ok" ELSE p.IPv6.st = "ok"
            /\ p.HTTP.st = "ok" <=> (hasData /\ dst = 80)
            /\ p.HTTPRes.st = "ok" <=> (hasData /\ src = 80 /\ dst # 80)

C13_Witness ==
    /\ out.fn = "parseEthernetPayload" /\ CarriesTCP(inp)
    /\ EtherTypeOf(inp) = 34525
    /\ BE16(IPPayloadOf(inp), 0) = 80 /\ BE16(IPPayloadOf(inp), 2) = 1234
    /\ out.r.IPv6.st = "ok" /\ out.r.TCP.st = "ok" /\ out.r.HTTPRes.st = "ok"

\* C14: ParsedBGPUpdate never faults; it returns absent whenever the
\* withdrawn-routes length or the path-attributes length exceeds the bytes
\* remaining in the body; a struct it returns has exactly WithdrawnRoutesLength
\* withdrawn bytes, PathAttributesLength attribute bytes and the rest as NLRI.
C14_UpdateLengthsChecked ==
    (out.fn = "ParsedBGPUpdate" /\ ParsedBGP(inp).st = "ok" /\ ParsedBGP(inp).Type = 2
        /\ Len(BodyOf(inp)) >= 4) =>
        LET body == BodyOf(inp)
            r    == out.r
            w    == BE16(body, 0)
            fitsW == 2 + w + 2 <= Len(body)
            p    == BE16(body, 2 + w)
        IN  /\ r.st # "fault"
            /\ ~fitsW => r.st = "absent"
            /\ (fitsW /\ 2 + w + 2 + p > Len(body)) => r.st = "absent"
            /\ r.st = "ok" =>
                 /\ r.WithdrawnRoutes = <<2, 2 + r.WithdrawnRoutesLength>>
                 /\ r.PathAttributes[1] = r.WithdrawnRoutes[2] + 2
                 /\ r.PathAttributes[2] - r.PathAttributes[1] = r.PathAttributesLength
                 /\ r.NetworkLayerReachabilityInfo = <<r.PathAttributes[2], Len(body)>>

\* C15: ParsedBGPOpen returns absent when the declared optional-parameters
\* length exceeds the bytes after the 10-byte fixed part; a struct it returns
\* has OptionalParametersLength equal to the length of its OptionalParameters.
C15_OpenOptLenChecked ==
    (out.fn = "ParsedBGPOpen" /\ ParsedBGP(inp).st = "ok" /\ ParsedBGP(inp).Type = 1
        /\ Len(BodyOf(inp)) >= 10) =>
        LET body == BodyOf(inp)
            r    == out.r
        IN  /\ B(body, 9) > Len(body) - 10 => r.st = "absent"
            /\ r.st = "ok" =>
                 r.OptionalParameters[2] - r.OptionalParameters[1]
                     = r.OptionalParametersLength

\* C17: for every AS number, hold time, router ID and optional-parameter byte
\* string, parsing the serialized OPEN returns version 4, the same AS number,
\* hold time, identifier and optional-parameter bytes, their count as
\* OptionalParametersLength, and an outer Length equal to the bytes serialized.
C17_OpenRoundTrip ==
    out.fn = "BGPOpenRoundTrip" =>
        LET r == out.r
            optionalParams == SubSeq(inp, 5, Len(inp))
        IN  /\ r.st = "ok"
            /\ r.Version = 4
            /\ r.MyAutonomousSystem = inp[1]
            /\ r.HoldTime = inp[2]
            /\ r.BGPIdentifier = <<inp[3], inp[4]>>
            /\ r.OptionalParametersLength = Len(optionalParams)
            /\ r.OptionalParameters = optionalParams
            /\ r.Length = r.Serialized

\* C16: ParsedICMPv6Echo returns an Echo sub-header only when the type is Echo
\* Request (128) or Echo Reply (129) and the body has at least 4 bytes; for any
\* other type, a shorter body or a nil message it returns absent.
C16_EchoOnlyForEchoTypes ==
    out.fn = "ParsedICMPv6Echo" =>
        LET i == ICMPv6Of(inp) IN
        /\ out.r.st # "fault"
        /\ out.r.st = "ok" <=>
             (i.st = "ok" /\ i.Type \in {128, 129} /\ Len(i.MessageBody) >= 4)

C18_HelloRoundTrip ==
    out.fn = "OSPFHelloRoundTrip" =>
        /\ out.r.st = "ok"
        /\ LET b == out.r.built
               p == out.r.parsed
               h == out.r.parsedHello
           IN  /\ p.Version = 2 /\ p.Type = 1
               /\ p.PacketLength = b.PacketLength
               /\ p.PacketLength = U16(24 + 20 + 4 * Len(inp[10]))
               /\ p.RouterID = inp[1] /\ p.AreaID = inp[2]
               /\ p.Checksum = b.Checksum /\ p.AuType = b.AuType
               /\ p.Authentication = b.Authentication
               /\ h.NetworkMask = inp[3] /\ h.HelloInterval = inp[4]
               /\ h.Options = inp[5] /\ h.RouterPriority = inp[6]
               /\ h.RouterDeadInterval = inp[7] /\ h.DesignatedRouter = inp[8]
               /\ h.BackupDesRouter = inp[9]
               /\ Len(h.Neighbors) = Len(inp[10])
               /\ h.Neighbors = inp[10]

C18_Witness ==
    /\ out.fn = "OSPFHelloRoundTrip" /\ out.r.st = "ok"
    /\ inp[10] = <<<<49320, 258>>, <<49320, 257>>>>
    /\ out.r.parsedHello.Neighbors = <<<<49320, 258>>, <<49320, 257>>>>
    /\ out.r.parsed.PacketLength = 52

\* C20: for every input, calculateFletcherChecksum returns (c1<<8)|c0 with c0
\* and c1 the modulo-255 running sums over all bytes except those at indices
\* 12 and 13; no input is treated by a special case.
C20_FletcherGeneral ==
    out.fn = "calculateFletcherChecksum" =>
        LET c == FletcherSums(inp)
        IN  out.r.Checksum = c[2] * 256 + c[1]

\* C21: calculateFletcherChecksum applied to the 16 bytes
\* 00 01 02 03 04 05 06 07 08 09 0A 0B 00 00 0E 0F returns 0xABF5.
C21_RFC1008Vector ==
    (out.fn = "calculateFletcherChecksum"
     /\ inp = <<0, 1, 2, 3, 4, 5, 6, 7, 8, 9, 10, 11, 0, 0, 14, 15>>) =>
        out.r.Checksum = 44021

C21_Witness ==
    /\ out.fn = "calculateFletcherChecksum"
    /\ inp = <<0, 1, 2, 3, 4, 5, 6, 7, 8, 9, 10, 11, 0, 0, 14, 15>>
    /\ out.r.st = "ok"

\* C22: the checksum NewOSPF stores is the one CalculateChecksum returns on the
\* built packet, and CalculateChecksum returns that same value whatever value
\* the Checksum field holds when it is called.
C22_ChecksumIgnoresStoredValue ==
    out.fn = "OSPFChecksumTwice" =>
        /\ out.r.recalculatedChecksum = out.r.originalChecksum
        /\ out.r.overwrittenChecksum = out.r.originalChecksum

C22_Witness ==
    /\ out.fn = "OSPFChecksumTwice"
    /\ inp[4] = <<1, 2, 3, 4>> /\ inp[5] = 65535
    /\ out.r.originalChecksum # 0
    /\ out.r.originalChecksum # inp[5]
    /\ out.r.overwrittenChecksum = out.r.originalChecksum

\* C23: whatever was put into the pools before, a bytes.Buffer returned by
\* BufferPool.Get is empty, and a slice returned by a BytesPool's Get is exactly
\* the pool's size long and holds only zero bytes.
C23_GetReturnsZeroed ==
    /\ poolRet.fn = "BufferPool.Get" => poolRet.len = 0
    /\ poolRet.fn \in {"Get", "GetBytes"} =>
          /\ poolRet.len = PoolSize(poolRet.pool)
          /\ poolRet.nonzero = {}

\* a slice of a user's own non-zero array came back from Get
C23_Witness ==
    /\ poolRet.fn = "Get"
    /\ poolRet.buf.off = 1
    /\ arrays[poolRet.buf.arr].cap = 129
    /\ arrays[poolRet.buf.arr].nz = {0}
    /\ poolRet.len = 128

\* C24: GetBytes(n) returns a slice of the smallest size class that is at least
\* n, so the slice is at least n bytes long.
C24_GetBytesAtLeastRequested ==
    poolRet.fn = "GetBytes" => poolRet.len >= poolRet.size

\* the non-loopback addresses of a list that are IPv4 (v4 = TRUE) or IPv6
\* (v4 = FALSE), in the order of the list
RECURSIVE NonLoopback(_, _)
NonLoopback(ipAddrs, v4) ==
    IF ipAddrs = <<>> THEN <<>>
    ELSE LET ip   == Head(ipAddrs).IP
             rest == NonLoopback(Tail(ipAddrs), v4)
         IN  IF ~IsLoopback(ip) /\ ((To4(ip) # NilIP) <=> v4)
             THEN <<ip>> \o rest ELSE rest

\* C25: on both backends the opened interface records, and GetNetworkInfo
\* returns, the first non-loopback IPv4 address and the first non-loopback IPv6
\* address of the interface's address list, and zero / nil where the list has
\* none.
C25_FirstNonLoopbackAddresses ==
    (out.fn \in {"OpenLinux", "OpenDarwin"} /\ out.r.st = "ok") =>
        LET v4 == NonLoopback(inp, TRUE)
            v6 == NonLoopback(inp, FALSE)
        IN  /\ out.r.info.ipv4Addr = IF v4 = <<>> THEN <<0, 0, 0, 0>> ELSE To4(Head(v4))
            /\ out.r.info.ipv6Addr = IF v6 = <<>> THEN NilIP ELSE Head(v6)

\* C26: a Start call that returns an error leaves the manager inactive and
\* leaves behind nothing it did: the eBPF objects loaded, the qdisc and filter
\* installed, the rules recorded in filterRules and the files on disk are what
\* they were before the call.
C26_FailedStartLeavesNothing ==
    [][(calls' = calls + 1 /\ last'.op = "Start" /\ last'.err # "nil")
         => (/\ ~tc'.isActive
             /\ ext' = ext
             /\ tc'.filterRules = tc.filterRules)]_vars

\* C27: on linux isActive is true exactly when the clsact qdisc and the egress
\* filter that Start added are both installed.
C27_ActiveIffInstalled ==
    tc.platform = "linux" => (tc.isActive <=> (ext.qdisc /\ ext.filter))

\* C28: once Close has returned, the capture task starts no read on the
\* released resource and completes none.  On linux the task's reads are its
\* unix.Recvfrom calls on nwif.Socket; on macOS the task itself only receives
\* from packetChan.
C28_NoReadAfterClose ==
    [][(closeCalls > 0 /\ backend = "linux")
         => (rd' = rd /\ (pc = "default" => pc' = "default"))]_vars

\* C29: the records the consumer has received, followed by those still queued
\* in PassiveCh, are records of frames the task has read, each of a different
\* frame and in the order the frames were read.
C29_ReceivedIsSubsequence ==
    LET sent == got \o ch
    IN  \A i \in 1..Len(sent) :
            /\ sent[i].id \in 1..rd
            /\ Len(FrameAt(wire, sent[i].id)) >= 14
            /\ sent[i].EthernetFrame.Type = BE16(FrameAt(wire, sent[i].id), 12)
            /\ i > 1 => sent[i - 1].id < sent[i].id

\* the consumer holds two records with a frame between them that was not
\* delivered
C29_Witness ==
    /\ Len(got) = 2
    /\ got[2].id = got[1].id + 2
    /\ rd >= got[2].id

\* C30: on either backend a frame that has been read is skipped exactly when it
\* is shorter than the 14-byte Ethernet header, and the record built for every
\* other frame carries the frame's addresses, EtherType and whole payload.
C30_BackendsPublishSameFrames ==
    [][rd' = rd + 1 =>
         LET f == FrameAt(wire, rd')
         IN  /\ (pc' = "loop") <=> (Len(f) < 14)
             /\ pc' = "publish" =>
                   LET c == Contents(cur', wire, buf')
                   IN  /\ c.DstAddr = SubSeq(f, 1, 6)
                       /\ c.SrcAddr = SubSeq(f, 7, 12)
                       /\ cur'.EthernetFrame.Type = BE16(f, 12)
                       /\ c.Payload = SubSeq(f, 15, Len(f))]_vars

====
